------------------------- MODULE ControlLink_proofs -------------------------
(***************************************************************************)
(* What is encoded is decoded, for any interface, and what the master asks *)
(* for is what the slave applies: the encodings of declarations, inputs,   *)
(* sensors, modules and configurations first, each on top of the other,    *)
(* then the states of the link.                                            *)
(***************************************************************************)
EXTENDS ControlLink, SequenceTheorems, FiniteSetTheorems, TLAPS

-----------------------------------------------------------------------------
(* Writes, one after the other. *)

DeclarationHeaders == [type : {"INTEGER", "FLOAT"}, width : 1 .. 2, has : SUBSET Limits]
ItemHeaders == [id : Nat, named : {0, 1}, declared : DeclarationHeaders]
ModuleHeaders == [id : Nat, num_inputs : Nat, num_sensors : Nat, named : {0, 1}]
ControlHeaders == [module_id : Nat, input_ids : SUBSET Nat]

Writes ==
  [size : Nat, data : Nat \cup Names \cup Values \cup {Absent} \cup ItemHeaders
                        \cup ModuleHeaders \cup ControlHeaders]

\* The buffer holds these writes from that place on.
Holds(buf, at, ws) == \A i \in 1 .. Len(ws) : buf[at + i - 1] = ws[i]

AddSize(sum, w) == sum + w.size
Join(s, t) == s \o t
Sizes == INSTANCE FoldLemmas WITH Op <- AddSize
Joins == INSTANCE FoldLemmas WITH Op <- Join
Fills == INSTANCE FoldLemmas WITH Op <- FillNext
Walks == INSTANCE FoldLemmas WITH Op <- NextPlace
Decodes == INSTANCE FoldLemmas WITH Op <- DecodeNext

PlusInput(sum, i) == sum + InputSize(i)
PlusSensor(sum, i) == sum + SensorSize(i)
PlusModule(sum, m) == sum + ModuleSize(m)
InputSizes == INSTANCE FoldLemmas WITH Op <- PlusInput
SensorSizes == INSTANCE FoldLemmas WITH Op <- PlusSensor
ModuleSizes == INSTANCE FoldLemmas WITH Op <- PlusModule
PlusPair(sum, pair) == sum + pair.input.data_type.width
PairSizes == INSTANCE FoldLemmas WITH Op <- PlusPair

SizeOf(ws) == FoldLeft(LAMBDA sum, w : sum + w.size, 0, ws)

\* A sequence without elements.
LEMMA NoElements == \A S : \A s \in Seq(S) : Len(s) = 0 => s = <<>>
OBVIOUS

\* The elements of two sequences, one after the other.
LEMMA Joined ==
  \A S : \A s, t \in Seq(S) :
    /\ s \o t \in Seq(S) /\ Len(s \o t) = Len(s) + Len(t)
    /\ Len(s) \in Nat /\ Len(t) \in Nat
    /\ \A i \in 1 .. Len(s) : (s \o t)[i] = s[i]
    /\ \A i \in 1 .. Len(t) : (s \o t)[Len(s) + i] = t[i]
OBVIOUS

\* A buffer that holds writes holds each part of them.
LEMMA HoldsParts ==
  ASSUME NEW S, NEW s \in Seq(S), NEW t \in Seq(S), NEW buf, NEW at \in Nat
  PROVE  Holds(buf, at, s \o t) <=> Holds(buf, at, s) /\ Holds(buf, at + Len(s), t)
<1> DEFINE n == Len(s)
           st == s \o t
<1>1. /\ n \in Nat /\ Len(t) \in Nat /\ Len(st) = n + Len(t)
      /\ \A i \in 1 .. n : st[i] = s[i]
      /\ \A i \in 1 .. Len(t) : st[n + i] = t[i]
  BY Joined
<1> HIDE DEF st, n
<1>2. ASSUME Holds(buf, at, st) PROVE Holds(buf, at, s) /\ Holds(buf, at + n, t)
  <2>1. ASSUME NEW i \in 1 .. n PROVE buf[at + i - 1] = s[i]
    BY <1>1, <1>2 DEF Holds
  <2>2. ASSUME NEW i \in 1 .. Len(t) PROVE buf[(at + n) + i - 1] = t[i]
    <3>1. n + i \in 1 .. Len(st) /\ at + (n + i) - 1 = (at + n) + i - 1
      BY <1>1
    <3> QED BY <1>1, <1>2, <3>1 DEF Holds
  <2> QED BY <2>1, <2>2 DEF Holds, n
<1>3. ASSUME Holds(buf, at, s), Holds(buf, at + n, t) PROVE Holds(buf, at, st)
  <2> SUFFICES ASSUME NEW i \in 1 .. Len(st) PROVE buf[at + i - 1] = st[i]
    BY DEF Holds
  <2>1. CASE i \in 1 .. n
    BY <1>1, <1>3, <2>1 DEF Holds, n
  <2>2. CASE i > n
    <3>1. i - n \in 1 .. Len(t) /\ n + (i - n) = i /\ (at + n) + (i - n) - 1 = at + i - 1
      BY <1>1, <2>2
    <3>2. buf[(at + n) + (i - n) - 1] = t[i - n]
      BY <1>3, <3>1 DEF Holds
    <3> QED BY <1>1, <3>1, <3>2
  <2> QED BY <1>1, <2>1, <2>2
<1> QED BY <1>2, <1>3 DEF n, st

\* The size of writes is the sum of their sizes.
LEMMA SizeIs ==
  /\ SizeOf(<<>>) = 0
  /\ \A s \in Seq(Writes) : SizeOf(s) \in Nat
  /\ \A s \in Seq(Writes), w \in Writes : SizeOf(Append(s, w)) = SizeOf(s) + w.size
<1>1. \A s : SizeOf(s) = Sizes!Folded(0, s)
  BY DEF SizeOf, Sizes!Folded, FoldLeft, MapThenFoldSet, Max,
         Sizes!MapThenFoldSet, Sizes!Greatest, AddSize
<1>2. SizeOf(<<>>) = 0
  BY <1>1, Sizes!FoldLeftEmpty
<1>3. \A s \in Seq(Writes) : Sizes!Folded(0, s) \in Nat
  <2>1. \A m \in Nat, w \in Writes : AddSize(m, w) \in Nat
    BY DEF AddSize, Writes
  <2> HIDE DEF AddSize, Writes
  <2>2. \A base \in Nat, seq \in Seq(Writes) : Sizes!Folded(base, seq) \in Nat
    BY <2>1, Sizes!FoldLeftStays
  <2> QED BY <2>2
<1>4. \A s \in Seq(Writes), w \in Writes : Sizes!Folded(0, Append(s, w)) = AddSize(Sizes!Folded(0, s), w)
  <2>1. \A base : \A seq \in Seq(Writes), w \in Writes :
          Sizes!Folded(base, Append(seq, w)) = AddSize(Sizes!Folded(base, seq), w)
    BY Sizes!FoldLeftAppend
  <2> QED BY <2>1
<1> QED BY <1>1, <1>2, <1>3, <1>4 DEF AddSize

\* The size of two parts is the sum of theirs.
LEMMA SizeOfParts ==
  ASSUME NEW s \in Seq(Writes), NEW t \in Seq(Writes)
  PROVE  SizeOf(s \o t) = SizeOf(s) + SizeOf(t)
<1> DEFINE n == Len(t)
           Part(i) == SubSeq(t, 1, i)
           T == {i \in Nat : SizeOf(s \o Part(i)) = SizeOf(s) + SizeOf(Part(i))}
<1>1. /\ n \in Nat /\ SizeOf(s) \in Nat
      /\ Part(0) = <<>> /\ Part(n) = t
      /\ \A i \in 0 .. n : Part(i) \in Seq(Writes)
  BY SizeIs
<1>2. \A i \in 0 .. n - 1 : t[i + 1] \in Writes /\ Part(i + 1) = Append(Part(i), t[i + 1])
  <2> TAKE i \in 0 .. n - 1
  <2>1. i \in Nat /\ i + 1 \in 1 .. n
    BY <1>1
  <2>2. /\ Part(i) \in Seq(Writes) /\ Len(Part(i)) = i
        /\ Part(i + 1) \in Seq(Writes) /\ Len(Part(i + 1)) = i + 1
        /\ \A k \in 1 .. i : Part(i)[k] = t[k]
        /\ \A k \in 1 .. i + 1 : Part(i + 1)[k] = t[k]
    BY <2>1
  <2> DEFINE a == Append(Part(i), t[i + 1])
  <2>3. /\ t[i + 1] \in Writes /\ a \in Seq(Writes) /\ Len(a) = i + 1
        /\ \A k \in 1 .. i : a[k] = Part(i)[k]
        /\ a[i + 1] = t[i + 1]
    BY <2>1, <2>2
  <2> HIDE DEF a, Part
  <2>4. \A k \in 1 .. i + 1 : Part(i + 1)[k] = a[k]
    <3> TAKE k \in 1 .. i + 1
    <3>1. k \in 1 .. i \/ k = i + 1
      BY <2>1
    <3> QED BY <2>2, <2>3, <3>1
  <2>5. Part(i + 1) = a
    BY <2>2, <2>3, <2>4
  <2> QED BY <2>3, <2>5 DEF a
<1> HIDE DEF Part, n
<1>3. 0 \in T
  <2>1. s \o <<>> = s
    OBVIOUS
  <2>2. SizeOf(s \o Part(0)) = SizeOf(s) /\ SizeOf(Part(0)) = 0
    BY <1>1, <2>1, SizeIs
  <2>3. SizeOf(s) = SizeOf(s) + 0
    BY <1>1
  <2> QED BY <2>2, <2>3
<1>4. ASSUME NEW i \in 0 .. n - 1, i \in T PROVE i + 1 \in T
  <2>1. i \in 0 .. n /\ i \in Nat /\ i + 1 \in Nat
    BY <1>1
  <2> DEFINE p == Part(i)
             w == t[i + 1]
  <2>2. p \in Seq(Writes) /\ w \in Writes /\ Part(i + 1) = Append(p, w)
    BY <1>1, <1>2, <2>1
  <2>3. SizeOf(s \o p) = SizeOf(s) + SizeOf(p)
    BY <1>4
  <2> HIDE DEF p, w
  <2>4. s \o Append(p, w) = Append(s \o p, w) /\ s \o p \in Seq(Writes)
    BY <2>2
  <2>5. SizeOf(Append(s \o p, w)) = SizeOf(s \o p) + w.size
    BY <2>2, <2>4, SizeIs
  <2>6. SizeOf(Append(p, w)) = SizeOf(p) + w.size /\ SizeOf(p) \in Nat /\ w.size \in Nat
    BY <2>2, SizeIs DEF Writes
  <2>7. SizeOf(s \o Part(i + 1)) = SizeOf(s) + SizeOf(Part(i + 1))
    <3>1. SizeOf(s \o Part(i + 1)) = SizeOf(s \o p) + w.size
      BY <2>2, <2>4, <2>5
    <3>2. SizeOf(Part(i + 1)) = SizeOf(p) + w.size
      BY <2>2, <2>6
    <3> QED BY <1>1, <2>3, <2>6, <3>1, <3>2
  <2> QED BY <2>1, <2>7
<1>5. \A i \in 0 .. n : i \in T
  <2> HIDE DEF T
  <2> QED BY <1>1, <1>3, <1>4, Sizes!CountingUp
<1>6. n \in T
  BY <1>1, <1>5
<1> QED BY <1>1, <1>6

\* What the parts of several sequences add up to.
LEMMA ConcatenatedIs ==
  \A S : \A seqs \in Seq(Seq(S)) :
    \E f : /\ f[0] = <<>>
           /\ \A k \in 1 .. Len(seqs) : f[k] = f[k - 1] \o seqs[k]
           /\ Concatenated(seqs) = f[Len(seqs)]
           /\ \A k \in 0 .. Len(seqs) : f[k] \in Seq(S)
<1> TAKE S
<1> TAKE seqs \in Seq(Seq(S))
<1> DEFINE n == Len(seqs)
           none == <<>>
<1>1. n \in Nat /\ none \in Seq(S) /\ \A k \in 1 .. n : seqs[k] \in Seq(S)
  OBVIOUS
<1>2. Concatenated(seqs) = Joins!Folded(none, seqs)
  BY DEF Concatenated, Joins!Folded, FoldLeft, MapThenFoldSet, Max,
         Joins!MapThenFoldSet, Joins!Greatest, Join
<1>3. PICK f : /\ f[0] = none
               /\ \A k \in 1 .. Len(seqs) : f[k] = Join(f[k - 1], seqs[k])
               /\ Joins!Folded(none, seqs) = f[Len(seqs)]
  <2>1. seqs \in Seq(Seq(S))
    OBVIOUS
  <2>2. \A base : \E f : /\ f[0] = base
                         /\ \A k \in 1 .. Len(seqs) : f[k] = Join(f[k - 1], seqs[k])
                         /\ Joins!Folded(base, seqs) = f[Len(seqs)]
    BY <2>1, Joins!FoldLeftSteps
  <2> QED BY <2>2
<1> HIDE DEF n
<1> DEFINE T == {k \in Nat : f[k] \in Seq(S)}
<1>4. 0 \in T
  BY <1>1, <1>3
<1>5. ASSUME NEW k \in 0 .. n - 1, k \in T PROVE k + 1 \in T
  <2>1. k \in Nat /\ k + 1 \in 1 .. n /\ (k + 1) - 1 = k
    BY <1>1
  <2>2. f[k] \in Seq(S) /\ seqs[k + 1] \in Seq(S)
    BY <1>1, <1>5, <2>1
  <2>3. f[k + 1] = f[k] \o seqs[k + 1]
    BY <1>3, <2>1 DEF Join, n
  <2>4. f[k] \o seqs[k + 1] \in Seq(S)
    BY <2>2, Joined
  <2>5. f[k + 1] \in Seq(S)
    BY <2>3, <2>4
  <2> QED BY <2>1, <2>5
<1>6. \A k \in 0 .. n : k \in T
  <2> HIDE DEF T
  <2> QED BY <1>1, <1>4, <1>5, Sizes!CountingUp
<1>7. \A k \in 0 .. Len(seqs) : f[k] \in Seq(S)
  BY <1>6 DEF n
<1>8. \A k \in 1 .. Len(seqs) : f[k] = f[k - 1] \o seqs[k]
  BY <1>3 DEF Join
<1> QED BY <1>2, <1>3, <1>7, <1>8

\* The size of several parts is what their sizes add up to.
LEMMA SizeOfConcatenated ==
  ASSUME NEW seqs \in Seq(Seq(Writes)), NEW g, g[0] = 0,
         \A k \in 1 .. Len(seqs) : g[k] = g[k - 1] + SizeOf(seqs[k])
  PROVE  SizeOf(Concatenated(seqs)) = g[Len(seqs)]
<1> DEFINE n == Len(seqs)
<1>1. n \in Nat /\ \A k \in 1 .. n : seqs[k] \in Seq(Writes)
  OBVIOUS
<1>2. PICK f : /\ f[0] = <<>>
               /\ \A k \in 1 .. Len(seqs) : f[k] = f[k - 1] \o seqs[k]
               /\ Concatenated(seqs) = f[Len(seqs)]
               /\ \A k \in 0 .. Len(seqs) : f[k] \in Seq(Writes)
  BY ConcatenatedIs
<1> HIDE DEF n
<1> DEFINE T == {k \in Nat : SizeOf(f[k]) = g[k]}
<1>3. 0 \in T
  BY <1>2, SizeIs
<1>4. ASSUME NEW k \in 0 .. n - 1, k \in T PROVE k + 1 \in T
  <2>1. k \in Nat /\ k \in 0 .. n /\ k + 1 \in 1 .. n /\ (k + 1) - 1 = k
    BY <1>1
  <2>2. f[k + 1] = f[k] \o seqs[k + 1] /\ f[k] \in Seq(Writes) /\ seqs[k + 1] \in Seq(Writes)
    BY <1>1, <1>2, <2>1 DEF n
  <2>3. SizeOf(f[k + 1]) = SizeOf(f[k]) + SizeOf(seqs[k + 1])
    BY <2>2, SizeOfParts
  <2>4. g[k + 1] = g[k] + SizeOf(seqs[k + 1])
    BY <2>1 DEF n
  <2>5. SizeOf(f[k]) = g[k]
    BY <1>4
  <2>6. SizeOf(f[k + 1]) = g[k + 1]
    BY <2>3, <2>4, <2>5
  <2> QED BY <2>1, <2>6
<1>5. \A k \in 0 .. n : k \in T
  <2> HIDE DEF T
  <2> QED BY <1>1, <1>3, <1>4, Sizes!CountingUp
<1>6. SizeOf(f[n]) = g[n]
  BY <1>1, <1>5
<1> QED BY <1>2, <1>6 DEF n

-----------------------------------------------------------------------------
(* The tail of a declaration. *)

\* The limits a declaration has are each at a place of the tail
\* (DataDeclarationBase.hh).
LEMMA TailIs ==
  ASSUME NEW has \in SUBSET Limits
  PROVE  /\ TailLimits(has) \in Seq(Limits) /\ Len(TailLimits(has)) = Cardinality(has)
         /\ Cardinality(has) \in Nat
         /\ \A i \in 1 .. Len(TailLimits(has)) : TailLimits(has)[i] \in has
         /\ \A l \in has : /\ TailPosition(has, l) \in 1 .. Len(TailLimits(has))
                           /\ TailLimits(has)[TailPosition(has, l)] = l
<1> DEFINE a == Present("neutral", has)
           b == Present("minimum", has)
           c == Present("maximum", has)
           t == TailLimits(has)
<1>1. /\ a = (IF "neutral" \in has THEN <<"neutral">> ELSE <<>>)
      /\ b = (IF "minimum" \in has THEN <<"minimum">> ELSE <<>>)
      /\ c = (IF "maximum" \in has THEN <<"maximum">> ELSE <<>>)
      /\ t = (a \o b) \o c
  BY DEF Present, TailLimits
<1>2. /\ a \in Seq(Limits) /\ b \in Seq(Limits) /\ c \in Seq(Limits)
      /\ Len(a) = (IF "neutral" \in has THEN 1 ELSE 0)
      /\ Len(b) = (IF "minimum" \in has THEN 1 ELSE 0)
      /\ Len(c) = (IF "maximum" \in has THEN 1 ELSE 0)
      /\ "neutral" \in has => a[1] = "neutral"
      /\ "minimum" \in has => b[1] = "minimum"
      /\ "maximum" \in has => c[1] = "maximum"
  <2>1. \A l \in Limits : /\ Present(l, has) \in Seq(Limits)
                          /\ Len(Present(l, has)) = (IF l \in has THEN 1 ELSE 0)
                          /\ l \in has => Present(l, has)[1] = l
    <3> TAKE l \in Limits
    <3>1. CASE l \in has
      <4>1. Present(l, has) = <<l>>
        BY <3>1 DEF Present
      <4> QED BY <3>1, <4>1
    <3>2. CASE l \notin has
      <4>1. Present(l, has) = <<>>
        BY <3>2 DEF Present
      <4> QED BY <3>2, <4>1
    <3> QED BY <3>1, <3>2
  <2>2. {"neutral", "minimum", "maximum"} = Limits
    BY DEF Limits
  <2> QED BY <2>1, <2>2
<1> HIDE DEF a, b, c, t
<1>3. /\ t \in Seq(Limits) /\ Len(t) = Len(a) + Len(b) + Len(c)
      /\ \A i \in 1 .. Len(a) : t[i] = a[i]
      /\ \A i \in 1 .. Len(b) : t[Len(a) + i] = b[i]
      /\ \A i \in 1 .. Len(c) : t[Len(a) + Len(b) + i] = c[i]
  <2> DEFINE ab == a \o b
  <2>1. /\ ab \in Seq(Limits) /\ Len(ab) = Len(a) + Len(b) /\ Len(a) \in Nat /\ Len(b) \in Nat
        /\ \A i \in 1 .. Len(a) : ab[i] = a[i]
        /\ \A i \in 1 .. Len(b) : ab[Len(a) + i] = b[i]
    BY <1>2, Joined
  <2>2. t = ab \o c
    BY <1>1
  <2> HIDE DEF ab
  <2>3. /\ t \in Seq(Limits) /\ Len(t) = Len(ab) + Len(c) /\ Len(c) \in Nat
        /\ \A i \in 1 .. Len(ab) : t[i] = ab[i]
        /\ \A i \in 1 .. Len(c) : t[Len(ab) + i] = c[i]
    BY <1>2, <2>1, <2>2, Joined
  <2> QED BY <2>1, <2>3
<1>4. \A i \in 1 .. Len(t) : t[i] \in has
  <2> TAKE i \in 1 .. Len(t)
  <2>1. CASE i \in 1 .. Len(a)
    BY <1>2, <1>3, <2>1
  <2>2. CASE i - Len(a) \in 1 .. Len(b)
    <3>1. Len(a) + (i - Len(a)) = i /\ i - Len(a) = 1
      BY <1>2, <1>3, <2>2
    <3> QED BY <1>2, <1>3, <2>2, <3>1
  <2>3. CASE i - Len(a) - Len(b) \in 1 .. Len(c)
    <3>1. Len(a) + Len(b) + (i - Len(a) - Len(b)) = i /\ i - Len(a) - Len(b) = 1
      BY <1>2, <1>3, <2>3
    <3> QED BY <1>2, <1>3, <2>3, <3>1
  <2> QED BY <1>2, <1>3, <2>1, <2>2, <2>3
<1>5. \A l \in has : \E i \in 1 .. Len(t) : t[i] = l
  <2> TAKE l \in has
  <2>1. CASE l = "neutral"
    BY <1>2, <1>3, <2>1
  <2>2. CASE l = "minimum"
    <3>1. Len(a) + 1 \in 1 .. Len(t) /\ t[Len(a) + 1] = l
      BY <1>2, <1>3, <2>2
    <3> QED BY <3>1
  <2>3. CASE l = "maximum"
    <3>1. Len(a) + Len(b) + 1 \in 1 .. Len(t) /\ t[Len(a) + Len(b) + 1] = l
      BY <1>2, <1>3, <2>3
    <3> QED BY <3>1
  <2> QED BY <2>1, <2>2, <2>3 DEF Limits
<1>6. \A l \in has : TailPosition(has, l) \in 1 .. Len(t) /\ t[TailPosition(has, l)] = l
  <2> TAKE l \in has
  <2>1. DOMAIN t = 1 .. Len(t)
    BY <1>3
  <2>2. TailPosition(has, l) = CHOOSE i \in DOMAIN t : t[i] = l
    BY DEF TailPosition, t
  <2> QED BY <1>5, <2>1, <2>2
<1>7. Cardinality(has) = Len(t)
  <2> DEFINE x == has \cap {"neutral"}
             y == has \cap {"neutral", "minimum"}
  <2>1. IsFiniteSet(x) /\ Cardinality(x) = Len(a)
    <3>1. CASE "neutral" \in has
      <4>1. x = {"neutral"}
        BY <3>1
      <4> QED BY <1>2, <3>1, <4>1, FS_Singleton
    <3>2. CASE "neutral" \notin has
      <4>1. x = {}
        BY <3>2
      <4> QED BY <1>2, <3>2, <4>1, FS_EmptySet
    <3> QED BY <3>1, <3>2
  <2>2. IsFiniteSet(y) /\ Cardinality(y) = Len(a) + Len(b)
    <3>1. CASE "minimum" \in has
      <4>1. y = x \cup {"minimum"} /\ "minimum" \notin x
        BY <3>1
      <4> HIDE DEF x, y
      <4>2. IsFiniteSet(y) /\ Cardinality(y) = Cardinality(x) + 1
        BY <2>1, <4>1, FS_AddElement
      <4> QED BY <1>2, <2>1, <3>1, <4>2
    <3>2. CASE "minimum" \notin has
      <4>1. y = x
        BY <3>2
      <4> HIDE DEF x, y
      <4> QED BY <1>2, <2>1, <3>2, <4>1
    <3> QED BY <3>1, <3>2
  <2>3. CASE "maximum" \in has
    <3>1. has = y \cup {"maximum"} /\ "maximum" \notin y
      BY <2>3 DEF Limits
    <3> HIDE DEF x, y
    <3>2. Cardinality(has) = Cardinality(y) + 1
      BY <2>2, <3>1, FS_AddElement
    <3> QED BY <1>2, <1>3, <2>2, <2>3, <3>2
  <2>4. CASE "maximum" \notin has
    <3>1. has = y
      BY <2>4 DEF Limits
    <3> HIDE DEF x, y
    <3> QED BY <1>2, <1>3, <2>2, <2>4, <3>1
  <2> QED BY <2>3, <2>4
<1> QED BY <1>3, <1>4, <1>6, <1>7 DEF t
\* A number of writes of the same size.
LEMMA SizeOfEqual ==
  ASSUME NEW s \in Seq(Writes), NEW w \in Nat, \A i \in 1 .. Len(s) : s[i].size = w
  PROVE  SizeOf(s) = w * Len(s)
<1> DEFINE n == Len(s)
<1>1. n \in Nat /\ \A i \in 1 .. n : s[i].size = w
  OBVIOUS
<1>2. PICK g : /\ g[0] = 0
               /\ \A k \in 1 .. Len(s) : g[k] = AddSize(g[k - 1], s[k])
               /\ Sizes!Folded(0, s) = g[Len(s)]
  <2>1. s \in Seq(Writes)
    OBVIOUS
  <2>2. \A base : \E f : /\ f[0] = base
                         /\ \A k \in 1 .. Len(s) : f[k] = AddSize(f[k - 1], s[k])
                         /\ Sizes!Folded(base, s) = f[Len(s)]
    BY <2>1, Sizes!FoldLeftSteps
  <2> QED BY <2>2
<1>3. SizeOf(s) = Sizes!Folded(0, s)
  BY DEF SizeOf, Sizes!Folded, FoldLeft, MapThenFoldSet, Max,
         Sizes!MapThenFoldSet, Sizes!Greatest, AddSize
<1>4. \A k \in 1 .. n : g[k] = g[k - 1] + w
  BY <1>1, <1>2 DEF AddSize
<1> HIDE DEF n
<1> DEFINE T == {k \in Nat : g[k] = w * k}
<1>5. 0 \in T
  BY <1>2
<1>6. ASSUME NEW k \in 0 .. n - 1, k \in T PROVE k + 1 \in T
  <2>1. k \in Nat /\ k + 1 \in 1 .. n /\ (k + 1) - 1 = k /\ w * k \in Nat
    BY <1>1
  <2>2. g[k + 1] = g[k] + w /\ g[k] = w * k
    BY <1>4, <1>6, <2>1
  <2>3. w * (k + 1) = w * k + w
    BY <2>1
  <2> QED BY <2>1, <2>2, <2>3
<1>7. \A k \in 0 .. n : k \in T
  <2> HIDE DEF T
  <2> QED BY <1>1, <1>5, <1>6, Sizes!CountingUp
<1>8. g[n] = w * n
  BY <1>1, <1>7
<1> QED BY <1>2, <1>3, <1>8 DEF n

\* A declaration is read as it was written, whichever limits it has
\* (DataDeclarationBase.hh, encode_tail and decode_tail).
LEMMA TailRoundTrip ==
  ASSUME NEW d \in Declarations
  PROVE  /\ EncodeTail(d) \in Seq(Writes)
         /\ Len(EncodeTail(d)) = Cardinality(DOMAIN d.limit)
         /\ Cardinality(DOMAIN d.limit) \in Nat
         /\ SizeOf(EncodeTail(d)) = TailSize(d)
         /\ DeclarationHeader(d) \in DeclarationHeaders
         /\ \A buf : \A at \in Nat :
              Holds(buf, at, EncodeTail(d)) => DecodeTail(DeclarationHeader(d), buf, at) = d
<1> DEFINE has == DOMAIN d.limit
           n == Cardinality(has)
           t == TailLimits(has)
           ws == EncodeTail(d)
<1>1. /\ has \in SUBSET Limits /\ d.width \in 1 .. 2 /\ d.type \in {"INTEGER", "FLOAT"}
      /\ d.limit \in [has -> Values \cup {Absent}]
      /\ d = [type |-> d.type, width |-> d.width, limit |-> d.limit]
  BY DEF Declarations
<1> HIDE DEF has
<1>2. /\ Len(t) = n /\ n \in Nat
      /\ \A i \in 1 .. n : t[i] \in has
      /\ \A l \in has : TailPosition(has, l) \in 1 .. n /\ t[TailPosition(has, l)] = l
  BY <1>1, TailIs
<1>3. ws = [i \in 1 .. n |-> Write(d.width, d.limit[t[i]])]
  BY DEF EncodeTail, has
<1> HIDE DEF n, t
<1>4. \A i \in 1 .. n : ws[i] = Write(d.width, d.limit[t[i]]) /\ ws[i] \in Writes
                         /\ ws[i].size = d.width /\ ws[i].data = d.limit[t[i]]
  BY <1>1, <1>2, <1>3 DEF Write, Writes
<1>5. ws \in Seq(Writes) /\ Len(ws) = n
  <2>1. ws \in [1 .. n -> Writes]
    BY <1>3, <1>4
  <2> QED BY <1>2, <2>1
<1> HIDE DEF ws
<1>6. SizeOf(ws) = d.width * n
  BY <1>1, <1>4, <1>5, SizeOfEqual
<1>7. DeclarationHeader(d) = [type |-> d.type, width |-> d.width, has |-> has]
  BY DEF DeclarationHeader, has
<1>8. ASSUME NEW buf, NEW at \in Nat, Holds(buf, at, ws)
      PROVE  DecodeTail(DeclarationHeader(d), buf, at) = d
  <2>1. DecodeTail(DeclarationHeader(d), buf, at)
          = [type |-> d.type, width |-> d.width,
             limit |-> [l \in has |-> buf[at + TailPosition(has, l) - 1].data]]
    BY <1>7 DEF DecodeTail
  <2>2. \A l \in has : buf[at + TailPosition(has, l) - 1].data = d.limit[l]
    <3> TAKE l \in has
    <3>1. buf[at + TailPosition(has, l) - 1] = ws[TailPosition(has, l)]
      BY <1>2, <1>5, <1>8 DEF Holds
    <3> QED BY <1>2, <1>4, <3>1
  <2>3. [l \in has |-> buf[at + TailPosition(has, l) - 1].data] = d.limit
    BY <1>1, <2>2
  <2> QED BY <1>1, <2>1, <2>3
<1>9. DeclarationHeader(d) \in DeclarationHeaders
  BY <1>1, <1>7 DEF DeclarationHeaders
<1> QED BY <1>2, <1>5, <1>6, <1>8, <1>9 DEF ws, n, has, TailSize
-----------------------------------------------------------------------------
(* Names, inputs and sensors. *)

\* One write.
LEMMA SizeOfOne ==
  ASSUME NEW w \in Writes
  PROVE  <<w>> \in Seq(Writes) /\ Len(<<w>>) = 1 /\ <<w>>[1] = w /\ SizeOf(<<w>>) = w.size
<1> DEFINE none == <<>>
<1>1. none \in Seq(Writes) /\ Append(none, w) = <<w>> /\ SizeOf(none) = 0 /\ w.size \in Nat
  BY SizeIs DEF Writes
<1> HIDE DEF none
<1>2. SizeOf(Append(none, w)) = SizeOf(none) + w.size
  BY <1>1, SizeIs
<1>3. SizeOf(<<w>>) = w.size
  BY <1>1, <1>2
<1> QED BY <1>3

\* An object without a name is read without one.
LEMMA NameRoundTrip ==
  ASSUME NEW name \in Names \cup {NoName}
  PROVE  /\ EncodeName(name) \in Seq(Writes)
         /\ Len(EncodeName(name)) = NameLength(name) /\ NameLength(name) \in {0, 1}
         /\ SizeOf(EncodeName(name)) = NameLength(name)
         /\ \A buf : \A at \in Nat :
              Holds(buf, at, EncodeName(name)) => DecodeName(NameLength(name), buf, at) = name
<1> DEFINE none == <<>>
<1>1. CASE name = NoName
  <2>1. EncodeName(name) = none /\ NameLength(name) = 0
    BY <1>1 DEF EncodeName, NameLength
  <2>2. none \in Seq(Writes) /\ Len(none) = 0 /\ SizeOf(none) = 0
    BY SizeIs
  <2>3. \A buf, at : DecodeName(0, buf, at) = name
    BY <1>1 DEF DecodeName
  <2> HIDE DEF none
  <2> QED BY <2>1, <2>2, <2>3
<1>2. CASE name # NoName
  <2> DEFINE w == Write(1, name)
  <2>1. w \in Writes /\ w.size = 1 /\ w.data = name
    BY <1>2 DEF Write, Writes
  <2>2. EncodeName(name) = <<w>> /\ NameLength(name) = 1
    BY <1>2 DEF EncodeName, NameLength
  <2> HIDE DEF w
  <2>3. <<w>> \in Seq(Writes) /\ Len(<<w>>) = 1 /\ <<w>>[1] = w /\ SizeOf(<<w>>) = 1
    BY <2>1, SizeOfOne
  <2>4. ASSUME NEW buf, NEW at \in Nat, Holds(buf, at, <<w>>)
        PROVE  DecodeName(1, buf, at) = name
    <3>1. buf[at + 1 - 1] = w /\ at + 1 - 1 = at
      BY <2>3, <2>4 DEF Holds
    <3> QED BY <2>1, <3>1 DEF DecodeName
  <2> QED BY <2>2, <2>3, <2>4
<1> QED BY <1>1, <1>2

\* What reading an input or a sensor back relies on: ws is a header and then as
\* many reads as the header announces, which restore the item.
ReadsBack(ws, id, size, item) ==
  LET h == ws[1].data
  IN  /\ ws \in Seq(Writes) /\ Len(ws) > 0
      /\ SizeOf(ws) = size + NameLength(item.name) + TailSize(item.data_type)
      /\ h.id = id /\ Reads(h) = Len(ws)
      /\ \A buf : \A at \in Nat : Holds(buf, at, ws) =>
           /\ buf[at] = ws[1]
           /\ DecodeTail(h.declared, buf, at + 1) = item.data_type
           /\ DecodeName(h.named, buf, at + 1 + Cardinality(h.declared.has)) = item.name

\* An input or sensor is read as it was written, and takes the number of reads
\* that its header says (DataDeclarationBase.hh, ModuleInput.cc, Sensor.cc).
LEMMA NamedRoundTrip ==
  ASSUME NEW id \in Nat, NEW size \in Nat, NEW item,
         item.name \in Names, item.data_type \in Declarations
  PROVE  ReadsBack(EncodeNamed(id, size, item), id, size, item)
<1> DEFINE d == item.data_type
           hd == [id |-> id, named |-> NameLength(item.name), declared |-> DeclarationHeader(d)]
           w == Write(size, hd)
           tail == EncodeTail(d)
           name == EncodeName(item.name)
           n == Cardinality(DOMAIN d.limit)
           ws == EncodeNamed(id, size, item)
<1>1. /\ tail \in Seq(Writes) /\ Len(tail) = n /\ n \in Nat /\ SizeOf(tail) = TailSize(d)
      /\ DeclarationHeader(d) \in DeclarationHeaders
      /\ \A buf : \A at \in Nat : Holds(buf, at, tail) => DecodeTail(DeclarationHeader(d), buf, at) = d
  BY TailRoundTrip
<1>2. /\ name \in Seq(Writes) /\ Len(name) = NameLength(item.name)
      /\ NameLength(item.name) \in {0, 1} /\ SizeOf(name) = NameLength(item.name)
      /\ \A buf : \A at \in Nat :
           Holds(buf, at, name) => DecodeName(NameLength(item.name), buf, at) = item.name
  BY NameRoundTrip
<1>3. /\ hd \in ItemHeaders /\ hd.id = id /\ hd.named = NameLength(item.name)
      /\ hd.declared = DeclarationHeader(d)
  BY <1>1, <1>2 DEF ItemHeaders
<1>4. hd.declared.has = DOMAIN d.limit
  BY <1>3 DEF DeclarationHeader
<1>5. ws = (<<w>> \o tail) \o name
  BY DEF EncodeNamed
<1> HIDE DEF hd, tail, name, ws, d, n
<1>6. w \in Writes /\ w.size = size /\ w.data = hd
  BY <1>3 DEF Write, Writes
<1> HIDE DEF w
<1>7. <<w>> \in Seq(Writes) /\ Len(<<w>>) = 1 /\ <<w>>[1] = w /\ SizeOf(<<w>>) = size
  BY <1>6, SizeOfOne
<1> DEFINE one == <<w>>
           front == one \o tail
<1>8. /\ front \in Seq(Writes) /\ Len(front) = 1 + n /\ front[1] = w
      /\ SizeOf(front) = size + TailSize(d)
  <2>1. front[1] = one[1]
    BY <1>1, <1>7, Joined
  <2>2. front \in Seq(Writes) /\ Len(front) = Len(one) + Len(tail)
    BY <1>1, <1>7, Joined
  <2> QED BY <1>1, <1>7, <2>1, <2>2, SizeOfParts
<1>9. ws = front \o name
  BY <1>5
<1>10. ASSUME NEW buf, NEW at \in Nat
       PROVE  Holds(buf, at, front) <=> Holds(buf, at, one) /\ Holds(buf, at + 1, tail)
  BY <1>1, <1>7, HoldsParts
<1>11. \A buf : \A at \in Nat : Holds(buf, at, one) => buf[at] = w
  <2> TAKE buf
  <2> TAKE at \in Nat
  <2>1. at + 1 - 1 = at
    OBVIOUS
  <2> QED BY <1>7, <2>1 DEF Holds
<1> HIDE DEF front, one
<1>12. /\ ws \in Seq(Writes) /\ Len(ws) = 1 + n + NameLength(item.name)
       /\ ws[1] = w /\ SizeOf(ws) = size + TailSize(d) + NameLength(item.name)
  <2>1. ws[1] = front[1] /\ ws \in Seq(Writes) /\ Len(ws) = Len(front) + Len(name)
    BY <1>1, <1>2, <1>8, <1>9, Joined
  <2> QED BY <1>2, <1>8, <1>9, <2>1, SizeOfParts
<1>13. ASSUME NEW buf, NEW at \in Nat, Holds(buf, at, ws)
       PROVE  /\ buf[at] = w
              /\ DecodeTail(hd.declared, buf, at + 1) = d
              /\ DecodeName(hd.named, buf, at + 1 + Cardinality(hd.declared.has)) = item.name
  <2>1. Holds(buf, at, front) /\ Holds(buf, at + (1 + n), name)
    BY <1>2, <1>8, <1>9, <1>13, HoldsParts
  <2>2. Holds(buf, at, one) /\ Holds(buf, at + 1, tail)
    BY <1>10, <2>1
  <2>3. at + 1 \in Nat /\ at + (1 + n) \in Nat /\ at + (1 + n) = at + 1 + n
    BY <1>1
  <2>4. Cardinality(hd.declared.has) = n
    BY <1>4 DEF n
  <2>5. buf[at] = w
    BY <1>11, <2>2
  <2>6. DecodeTail(hd.declared, buf, at + 1) = d
    BY <1>1, <1>3, <2>2, <2>3
  <2>7. DecodeName(hd.named, buf, at + (1 + n)) = item.name
    BY <1>2, <1>3, <2>1, <2>3
  <2> QED BY <2>3, <2>4, <2>5, <2>6, <2>7
<1>14. Reads(hd) = Len(ws)
  BY <1>1, <1>2, <1>3, <1>4, <1>12 DEF Reads, n
<1>15. TailSize(d) \in Nat /\ size + TailSize(d) + NameLength(item.name)
                                = size + NameLength(item.name) + TailSize(d)
  BY <1>1, <1>2, SizeIs
<1>16. Len(ws) > 0
  BY <1>1, <1>2, <1>12
<1>17. ws[1].data = hd
  BY <1>6, <1>12
<1>18. ReadsBack(ws, id, size, item)
  BY <1>3, <1>12, <1>13, <1>14, <1>15, <1>16, <1>17 DEF ReadsBack, d
<1> QED BY <1>18 DEF ws
\* Of items written one after the other, each is where those before it end.
LEMMA HoldsEach ==
  ASSUME NEW seqs \in Seq(Seq(Writes)), NEW buf, NEW at \in Nat,
         Holds(buf, at, Concatenated(seqs))
  PROVE  \E p : /\ p[0] = at /\ p[Len(seqs)] = at + Len(Concatenated(seqs))
                /\ \A k \in 0 .. Len(seqs) : p[k] \in Nat
                /\ \A k \in 1 .. Len(seqs) : /\ p[k] = p[k - 1] + Len(seqs[k])
                                             /\ Holds(buf, p[k - 1], seqs[k])
<1> DEFINE n == Len(seqs)
<1>1. n \in Nat /\ \A k \in 1 .. n : seqs[k] \in Seq(Writes)
  OBVIOUS
<1>2. PICK f : /\ f[0] = <<>>
               /\ \A k \in 1 .. Len(seqs) : f[k] = f[k - 1] \o seqs[k]
               /\ Concatenated(seqs) = f[Len(seqs)]
               /\ \A k \in 0 .. Len(seqs) : f[k] \in Seq(Writes)
  BY ConcatenatedIs
<1> HIDE DEF n
\* From the last part back, the buffer holds what comes before it.
<1> DEFINE B == {j \in Nat : Holds(buf, at, f[n - j])}
<1>3. 0 \in B
  <2>1. n - 0 = n
    BY <1>1
  <2> QED BY <1>2, <2>1 DEF n
<1>4. ASSUME NEW j \in 0 .. n - 1, j \in B PROVE j + 1 \in B
  <2>1. j \in Nat /\ n - j \in 1 .. n /\ (n - j) - 1 = n - (j + 1) /\ n - (j + 1) \in 0 .. n
    BY <1>1
  <2>2. f[n - j] = f[n - (j + 1)] \o seqs[n - j]
    BY <1>2, <2>1 DEF n
  <2>3. f[n - (j + 1)] \in Seq(Writes) /\ seqs[n - j] \in Seq(Writes)
    BY <1>1, <1>2, <2>1 DEF n
  <2>4. Holds(buf, at, f[n - (j + 1)] \o seqs[n - j])
    BY <1>4, <2>2
  <2>5. Holds(buf, at, f[n - (j + 1)])
    BY <2>3, <2>4, HoldsParts
  <2> QED BY <2>1, <2>5
<1>5. \A j \in 0 .. n : j \in B
  <2> HIDE DEF B
  <2> QED BY <1>1, <1>3, <1>4, Sizes!CountingUp
<1> DEFINE p == [k \in 0 .. n |-> at + Len(f[k])]
<1>6. p[0] = at
  <2>1. Len(f[0]) = 0 /\ 0 \in 0 .. n
    BY <1>1, <1>2
  <2>2. p[0] = at + Len(f[0])
    BY <2>1
  <2> HIDE DEF p
  <2> QED BY <2>1, <2>2
<1>7. p[n] = at + Len(Concatenated(seqs))
  BY <1>1, <1>2 DEF n
<1>8. \A k \in 0 .. n : p[k] \in Nat /\ p[k] = at + Len(f[k])
  <2>1. \A k \in 0 .. n : Len(f[k]) \in Nat
    BY <1>2 DEF n
  <2> QED BY <2>1
<1>9. ASSUME NEW k \in 1 .. n
      PROVE  p[k] = p[k - 1] + Len(seqs[k]) /\ Holds(buf, p[k - 1], seqs[k])
  <2>1. n - k \in 0 .. n /\ n - (n - k) = k /\ k - 1 \in 0 .. n /\ k \in 0 .. n
    BY <1>1
  <2>2. Holds(buf, at, f[k])
    BY <1>5, <2>1
  <2>3. f[k] = f[k - 1] \o seqs[k] /\ f[k - 1] \in Seq(Writes) /\ seqs[k] \in Seq(Writes)
    BY <1>1, <1>2, <2>1 DEF n
  <2>4. Holds(buf, at + Len(f[k - 1]), seqs[k])
    BY <2>2, <2>3, HoldsParts
  <2>5. Len(f[k]) = Len(f[k - 1]) + Len(seqs[k]) /\ Len(f[k - 1]) \in Nat /\ Len(seqs[k]) \in Nat
    BY <2>3, Joined
  <2> DEFINE x == Len(f[k - 1])
             y == Len(seqs[k])
  <2>6. Len(f[k]) = x + y /\ x \in Nat /\ y \in Nat
    BY <2>5
  <2> HIDE DEF x, y
  <2>7. at + Len(f[k]) = (at + x) + y
    <3>1. at + (x + y) = (at + x) + y
      BY <2>6
    <3> QED BY <2>6, <3>1
  <2> QED BY <1>8, <2>1, <2>4, <2>7 DEF x, y
<1> HIDE DEF p
<1>10. /\ p[0] = at /\ p[Len(seqs)] = at + Len(Concatenated(seqs))
       /\ \A k \in 0 .. Len(seqs) : p[k] \in Nat
       /\ \A k \in 1 .. Len(seqs) : /\ p[k] = p[k - 1] + Len(seqs[k])
                                    /\ Holds(buf, p[k - 1], seqs[k])
  BY <1>6, <1>7, <1>8, <1>9 DEF n
<1> QED BY <1>10

\* Items written one after the other are found where the items before them end,
\* by the reads their headers say they take (Module.cc:268-291).
LEMMA PlacesAre ==
  ASSUME NEW seqs \in Seq(Seq(Writes)), NEW buf, NEW at \in Nat,
         \A k \in 1 .. Len(seqs) : Len(seqs[k]) > 0 /\ Reads(seqs[k][1].data) = Len(seqs[k]),
         Holds(buf, at, Concatenated(seqs))
  PROVE  /\ Places(Len(seqs), buf, at) \in Seq(Nat)
         /\ Last(Places(Len(seqs), buf, at)) = at + Len(Concatenated(seqs))
         /\ \A k \in 1 .. Len(seqs) : /\ Places(Len(seqs), buf, at)[k] \in Nat
                                      /\ Holds(buf, Places(Len(seqs), buf, at)[k], seqs[k])
<1> DEFINE n == Len(seqs)
           bufs == [k \in 1 .. n |-> buf]
           here == <<at>>
<1>1. n \in Nat /\ \A k \in 1 .. n : seqs[k] \in Seq(Writes) /\ Len(seqs[k]) \in Nat
  OBVIOUS
<1>2. PICK p : /\ p[0] = at /\ p[Len(seqs)] = at + Len(Concatenated(seqs))
               /\ \A k \in 0 .. Len(seqs) : p[k] \in Nat
               /\ \A k \in 1 .. Len(seqs) : /\ p[k] = p[k - 1] + Len(seqs[k])
                                            /\ Holds(buf, p[k - 1], seqs[k])
  BY HoldsEach
<1>3. bufs \in Seq({buf}) /\ Len(bufs) = n /\ \A k \in 1 .. n : bufs[k] = buf
  BY <1>1
<1>4. Places(n, buf, at) = Walks!Folded(here, bufs)
  BY DEF Places, Walks!Folded, FoldLeft, MapThenFoldSet, Max,
         Walks!MapThenFoldSet, Walks!Greatest
<1> HIDE DEF bufs, n
<1>5. PICK q : /\ q[0] = here
               /\ \A k \in 1 .. Len(bufs) : q[k] = NextPlace(q[k - 1], bufs[k])
               /\ Walks!Folded(here, bufs) = q[Len(bufs)]
  <2>1. bufs \in Seq({buf})
    BY <1>3
  <2>2. \A base : \E g : /\ g[0] = base
                         /\ \A k \in 1 .. Len(bufs) : g[k] = NextPlace(g[k - 1], bufs[k])
                         /\ Walks!Folded(base, bufs) = g[Len(bufs)]
    BY <2>1, Walks!FoldLeftSteps
  <2> QED BY <2>2
<1>6. \A k \in 1 .. n : q[k] = Append(q[k - 1], Last(q[k - 1]) + Reads(buf[Last(q[k - 1])].data))
  BY <1>3, <1>5 DEF NextPlace
<1> DEFINE T == {k \in Nat : /\ q[k] \in Seq(Nat) /\ Len(q[k]) = k + 1
                             /\ \A j \in 1 .. k + 1 : q[k][j] = p[j - 1]}
<1>7. 0 \in T
  <2>1. q[0] \in Seq(Nat) /\ Len(q[0]) = 0 + 1 /\ q[0][1] = at
    BY <1>5
  <2>2. \A j \in 1 .. 0 + 1 : j = 1 /\ j - 1 = 0
    OBVIOUS
  <2> QED BY <1>2, <2>1, <2>2
<1>8. ASSUME NEW k \in 0 .. n - 1, k \in T PROVE k + 1 \in T
  <2>1. k \in Nat /\ k \in 0 .. n /\ k + 1 \in 1 .. n /\ (k + 1) - 1 = k
    BY <1>1
  <2>2. /\ q[k] \in Seq(Nat) /\ Len(q[k]) = k + 1
        /\ \A j \in 1 .. k + 1 : q[k][j] = p[j - 1]
    BY <1>8
  <2>3. Last(q[k]) = p[k]
    BY <2>1, <2>2 DEF Last
  <2> DEFINE s == seqs[k + 1]
  <2>4. Holds(buf, p[k], s) /\ p[k + 1] = p[k] + Len(s) /\ p[k] \in Nat /\ p[k + 1] \in Nat
    BY <1>1, <1>2, <2>1 DEF n
  <2>5. Len(s) > 0 /\ Len(s) \in Nat /\ Reads(s[1].data) = Len(s)
    BY <1>1, <2>1 DEF n
  <2>6. buf[p[k]] = s[1]
    <3>1. p[k] + 1 - 1 = p[k] /\ 1 \in 1 .. Len(s)
      BY <2>4, <2>5
    <3> QED BY <2>4, <3>1 DEF Holds
  <2>7. q[k + 1] = Append(q[k], p[k + 1])
    BY <1>6, <2>1, <2>3, <2>4, <2>5, <2>6
  <2>8. /\ Append(q[k], p[k + 1]) \in Seq(Nat) /\ Len(Append(q[k], p[k + 1])) = (k + 1) + 1
        /\ \A j \in 1 .. k + 1 : Append(q[k], p[k + 1])[j] = q[k][j]
        /\ Append(q[k], p[k + 1])[(k + 1) + 1] = p[k + 1]
    BY <2>1, <2>2, <2>4
  <2>9. \A j \in 1 .. (k + 1) + 1 : q[k + 1][j] = p[j - 1]
    <3> TAKE j \in 1 .. (k + 1) + 1
    <3>1. CASE j \in 1 .. k + 1
      BY <2>2, <2>7, <2>8, <3>1
    <3>2. CASE j = (k + 1) + 1
      <4>1. j - 1 = k + 1
        BY <2>1, <3>2
      <4> QED BY <2>7, <2>8, <3>2, <4>1
    <3> QED BY <2>1, <3>1, <3>2
  <2>10. q[k + 1] \in Seq(Nat) /\ Len(q[k + 1]) = (k + 1) + 1 /\ k + 1 \in Nat
    BY <2>1, <2>7, <2>8
  <2> QED BY <2>9, <2>10
<1>9. /\ q[n] \in Seq(Nat) /\ Len(q[n]) = n + 1
      /\ \A j \in 1 .. n + 1 : q[n][j] = p[j - 1]
  <2>1. n \in T
    <3> HIDE DEF T
    <3>1. \A k \in 0 .. n : k \in T
      BY <1>1, <1>7, <1>8, Sizes!CountingUp
    <3> QED BY <1>1, <3>1
  <2> QED BY <2>1
<1> HIDE DEF T
<1>10. Places(n, buf, at) = q[n]
  BY <1>3, <1>4, <1>5
<1>11. Last(q[n]) = p[n]
  <2>1. n + 1 \in 1 .. n + 1 /\ (n + 1) - 1 = n
    BY <1>1
  <2> QED BY <1>9, <2>1 DEF Last
<1>12. \A k \in 1 .. n : q[n][k] \in Nat /\ Holds(buf, q[n][k], seqs[k])
  <2> TAKE k \in 1 .. n
  <2>1. q[n][k] = p[k - 1] /\ k - 1 \in 0 .. n
    BY <1>1, <1>9
  <2> QED BY <1>2, <2>1 DEF n
<1> QED BY <1>2, <1>9, <1>10, <1>11, <1>12 DEF n

-----------------------------------------------------------------------------
(* Modules. *)

\* The encodings of a module's inputs and sensors.
InputParts(items) == [k \in 1 .. Len(items) |-> EncodeInput(items[k])]
SensorParts(items) == [k \in 1 .. Len(items) |-> EncodeSensor(items[k])]


\* One Input is read as it was written (ModuleInput.cc).
LEMMA InputRoundTrip ==
  ASSUME NEW i \in Inputs
  PROVE  /\ EncodeInput(i) \in Seq(Writes) /\ Len(EncodeInput(i)) > 0
         /\ SizeOf(EncodeInput(i)) = InputSize(i) /\ InputSize(i) \in Nat
         /\ Reads(EncodeInput(i)[1].data) = Len(EncodeInput(i))
         /\ \A buf : \A at \in Nat : Holds(buf, at, EncodeInput(i)) => DecodeInput(buf, at) = i
<1> DEFINE ws == EncodeNamed(i.input_id, InputHeaderSize, i)
           h == ws[1].data
<1>1. /\ i.input_id \in Nat /\ i.name \in Names /\ i.data_type \in Declarations
      /\ i = [input_id |-> i.input_id, name |-> i.name, data_type |-> i.data_type]
      /\ InputHeaderSize \in Nat
  BY DEF Inputs, InputHeaderSize
<1>2. /\ ws \in Seq(Writes) /\ Len(ws) > 0
      /\ SizeOf(ws) = InputHeaderSize + NameLength(i.name) + TailSize(i.data_type)
      /\ h.id = i.input_id /\ Reads(h) = Len(ws)
      /\ \A buf : \A at \in Nat : Holds(buf, at, ws) =>
           /\ buf[at] = ws[1]
           /\ DecodeTail(h.declared, buf, at + 1) = i.data_type
           /\ DecodeName(h.named, buf, at + 1 + Cardinality(h.declared.has)) = i.name
  <2> DEFINE id == i.input_id
             size == InputHeaderSize
             v == EncodeNamed(id, size, i)
  <2>1. id \in Nat /\ size \in Nat /\ i.name \in Names /\ i.data_type \in Declarations
    BY <1>1
  <2> HIDE DEF id, size
  <2>2. ReadsBack(v, id, size, i)
    BY <2>1, NamedRoundTrip
  <2> QED BY <2>2 DEF ReadsBack, id, size
<1>3. EncodeInput(i) = ws
  BY DEF EncodeInput
<1> HIDE DEF ws
<1>4. SizeOf(ws) = InputSize(i) /\ SizeOf(ws) \in Nat
  BY <1>2, SizeIs DEF InputSize
<1>5. ASSUME NEW buf, NEW at \in Nat, Holds(buf, at, ws) PROVE DecodeInput(buf, at) = i
  <2>1. buf[at].data = h
    BY <1>2, <1>5
  <2> HIDE DEF h
  <2>2. DecodeInput(buf, at) = [input_id |-> h.id, data_type |-> DecodeTail(h.declared, buf, at + 1),
          name |-> DecodeName(h.named, buf, at + 1 + Cardinality(h.declared.has))]
    BY <2>1 DEF DecodeInput
  <2>3. /\ DecodeTail(h.declared, buf, at + 1) = i.data_type
        /\ DecodeName(h.named, buf, at + 1 + Cardinality(h.declared.has)) = i.name
        /\ h.id = i.input_id
    BY <1>2, <1>5 DEF h
  <2> QED BY <1>1, <2>2, <2>3
<1> QED BY <1>2, <1>3, <1>4, <1>5

\* All inputs of a module are (Module.cc:183-291).
LEMMA InputsRoundTrip ==
  ASSUME NEW items \in Seq(Inputs)
  PROVE  LET parts == InputParts(items)
         IN  /\ parts \in Seq(Seq(Writes)) /\ Len(parts) = Len(items)
             /\ Concatenated(parts) \in Seq(Writes)
             /\ SizeOf(Concatenated(parts)) = FoldLeft(LAMBDA sum, i : sum + InputSize(i), 0, items)
             /\ \A buf : \A at \in Nat : Holds(buf, at, Concatenated(parts)) =>
                  /\ Last(Places(Len(items), buf, at)) = at + Len(Concatenated(parts))
                  /\ [k \in 1 .. Len(items) |-> DecodeInput(buf, Places(Len(items), buf, at)[k])]
                       = items
<1> DEFINE n == Len(items)
           parts == InputParts(items)
<1>1. n \in Nat /\ DOMAIN items = 1 .. n /\ \A k \in 1 .. n : items[k] \in Inputs
  OBVIOUS
<1>2. parts = [k \in 1 .. n |-> EncodeInput(items[k])]
  BY DEF InputParts
<1> HIDE DEF parts
<1>3. ASSUME NEW k \in 1 .. n
      PROVE  /\ parts[k] = EncodeInput(items[k]) /\ parts[k] \in Seq(Writes) /\ Len(parts[k]) > 0
             /\ SizeOf(parts[k]) = InputSize(items[k]) /\ InputSize(items[k]) \in Nat
             /\ Reads(parts[k][1].data) = Len(parts[k])
             /\ \A buf : \A at \in Nat : Holds(buf, at, parts[k]) => DecodeInput(buf, at) = items[k]
  <2>1. parts[k] = EncodeInput(items[k]) /\ items[k] \in Inputs
    BY <1>1, <1>2
  <2> HIDE DEF n
  <2> QED BY <2>1, InputRoundTrip
<1>4. parts \in Seq(Seq(Writes)) /\ Len(parts) = n
  <2>1. parts \in [1 .. n -> Seq(Writes)]
    BY <1>2, <1>3
  <2> QED BY <1>1, <2>1
<1>5. Concatenated(parts) \in Seq(Writes)
  <2>1. PICK f : /\ f[0] = <<>>
                 /\ \A k \in 1 .. Len(parts) : f[k] = f[k - 1] \o parts[k]
                 /\ Concatenated(parts) = f[Len(parts)]
                 /\ \A k \in 0 .. Len(parts) : f[k] \in Seq(Writes)
    BY <1>4, ConcatenatedIs
  <2>2. Len(parts) \in 0 .. Len(parts)
    BY <1>1, <1>4
  <2> QED BY <2>1, <2>2
<1> DEFINE total == FoldLeft(LAMBDA sum, i : sum + InputSize(i), 0, items)
<1>6. total = InputSizes!Folded(0, items)
  BY DEF InputSizes!Folded, FoldLeft, MapThenFoldSet, Max,
         InputSizes!MapThenFoldSet, InputSizes!Greatest, PlusInput
<1> HIDE DEF total
<1>7. PICK g : /\ g[0] = 0
               /\ \A k \in 1 .. Len(items) : g[k] = PlusInput(g[k - 1], items[k])
               /\ InputSizes!Folded(0, items) = g[Len(items)]
  <2>1. items \in Seq(Inputs)
    OBVIOUS
  <2>2. \A base : \E f : /\ f[0] = base
                         /\ \A k \in 1 .. Len(items) : f[k] = PlusInput(f[k - 1], items[k])
                         /\ InputSizes!Folded(base, items) = f[Len(items)]
    BY <2>1, InputSizes!FoldLeftSteps
  <2> QED BY <2>2
<1>8. SizeOf(Concatenated(parts)) = total
  <2>1. \A k \in 1 .. Len(parts) : g[k] = g[k - 1] + SizeOf(parts[k])
    BY <1>3, <1>4, <1>7 DEF PlusInput
  <2>2. SizeOf(Concatenated(parts)) = g[Len(parts)]
    BY <1>4, <1>7, <2>1, SizeOfConcatenated
  <2> QED BY <1>4, <1>6, <1>7, <2>2
<1>9. ASSUME NEW buf, NEW at \in Nat, Holds(buf, at, Concatenated(parts))
      PROVE  /\ Last(Places(n, buf, at)) = at + Len(Concatenated(parts))
             /\ [k \in 1 .. n |-> DecodeInput(buf, Places(n, buf, at)[k])] = items
  <2>1. \A k \in 1 .. Len(parts) : Len(parts[k]) > 0 /\ Reads(parts[k][1].data) = Len(parts[k])
    BY <1>3, <1>4
  <2> DEFINE p == Places(Len(parts), buf, at)
  <2>2. /\ Last(p) = at + Len(Concatenated(parts))
        /\ \A k \in 1 .. Len(parts) : p[k] \in Nat /\ Holds(buf, p[k], parts[k])
    BY <1>4, <1>9, <2>1, PlacesAre
  <2>3. p = Places(n, buf, at)
    BY <1>4
  <2> HIDE DEF p, n
  <2>4. \A k \in 1 .. n : DecodeInput(buf, p[k]) = items[k]
    BY <1>3, <1>4, <2>2
  <2>5. [k \in 1 .. n |-> DecodeInput(buf, p[k])] = items
    BY <1>1, <2>4
  <2> QED BY <2>2, <2>3, <2>5
<1> QED BY <1>4, <1>5, <1>8, <1>9 DEF parts, total

\* One Sensor is read as it was written (Sensor.cc).
LEMMA SensorRoundTrip ==
  ASSUME NEW i \in Sensors
  PROVE  /\ EncodeSensor(i) \in Seq(Writes) /\ Len(EncodeSensor(i)) > 0
         /\ SizeOf(EncodeSensor(i)) = SensorSize(i) /\ SensorSize(i) \in Nat
         /\ Reads(EncodeSensor(i)[1].data) = Len(EncodeSensor(i))
         /\ \A buf : \A at \in Nat : Holds(buf, at, EncodeSensor(i)) => DecodeSensor(buf, at) = i
<1> DEFINE ws == EncodeNamed(i.id, SensorHeaderSize, i)
           h == ws[1].data
<1>1. /\ i.id \in Nat /\ i.name \in Names /\ i.data_type \in Declarations
      /\ i = [id |-> i.id, name |-> i.name, data_type |-> i.data_type]
      /\ SensorHeaderSize \in Nat
  BY DEF Sensors, SensorHeaderSize
<1>2. /\ ws \in Seq(Writes) /\ Len(ws) > 0
      /\ SizeOf(ws) = SensorHeaderSize + NameLength(i.name) + TailSize(i.data_type)
      /\ h.id = i.id /\ Reads(h) = Len(ws)
      /\ \A buf : \A at \in Nat : Holds(buf, at, ws) =>
           /\ buf[at] = ws[1]
           /\ DecodeTail(h.declared, buf, at + 1) = i.data_type
           /\ DecodeName(h.named, buf, at + 1 + Cardinality(h.declared.has)) = i.name
  <2> DEFINE id == i.id
             size == SensorHeaderSize
             v == EncodeNamed(id, size, i)
  <2>1. id \in Nat /\ size \in Nat /\ i.name \in Names /\ i.data_type \in Declarations
    BY <1>1
  <2> HIDE DEF id, size
  <2>2. ReadsBack(v, id, size, i)
    BY <2>1, NamedRoundTrip
  <2> QED BY <2>2 DEF ReadsBack, id, size
<1>3. EncodeSensor(i) = ws
  BY DEF EncodeSensor
<1> HIDE DEF ws
<1>4. SizeOf(ws) = SensorSize(i) /\ SizeOf(ws) \in Nat
  BY <1>2, SizeIs DEF SensorSize
<1>5. ASSUME NEW buf, NEW at \in Nat, Holds(buf, at, ws) PROVE DecodeSensor(buf, at) = i
  <2>1. buf[at].data = h
    BY <1>2, <1>5
  <2> HIDE DEF h
  <2>2. DecodeSensor(buf, at) = [id |-> h.id, data_type |-> DecodeTail(h.declared, buf, at + 1),
          name |-> DecodeName(h.named, buf, at + 1 + Cardinality(h.declared.has))]
    BY <2>1 DEF DecodeSensor
  <2>3. /\ DecodeTail(h.declared, buf, at + 1) = i.data_type
        /\ DecodeName(h.named, buf, at + 1 + Cardinality(h.declared.has)) = i.name
        /\ h.id = i.id
    BY <1>2, <1>5 DEF h
  <2> QED BY <1>1, <2>2, <2>3
<1> QED BY <1>2, <1>3, <1>4, <1>5

\* All sensors of a module are (Module.cc:183-291).
LEMMA SensorsRoundTrip ==
  ASSUME NEW items \in Seq(Sensors)
  PROVE  LET parts == SensorParts(items)
         IN  /\ parts \in Seq(Seq(Writes)) /\ Len(parts) = Len(items)
             /\ Concatenated(parts) \in Seq(Writes)
             /\ SizeOf(Concatenated(parts)) = FoldLeft(LAMBDA sum, i : sum + SensorSize(i), 0, items)
             /\ \A buf : \A at \in Nat : Holds(buf, at, Concatenated(parts)) =>
                  /\ Last(Places(Len(items), buf, at)) = at + Len(Concatenated(parts))
                  /\ [k \in 1 .. Len(items) |-> DecodeSensor(buf, Places(Len(items), buf, at)[k])]
                       = items
<1> DEFINE n == Len(items)
           parts == SensorParts(items)
<1>1. n \in Nat /\ DOMAIN items = 1 .. n /\ \A k \in 1 .. n : items[k] \in Sensors
  OBVIOUS
<1>2. parts = [k \in 1 .. n |-> EncodeSensor(items[k])]
  BY DEF SensorParts
<1> HIDE DEF parts
<1>3. ASSUME NEW k \in 1 .. n
      PROVE  /\ parts[k] = EncodeSensor(items[k]) /\ parts[k] \in Seq(Writes) /\ Len(parts[k]) > 0
             /\ SizeOf(parts[k]) = SensorSize(items[k]) /\ SensorSize(items[k]) \in Nat
             /\ Reads(parts[k][1].data) = Len(parts[k])
             /\ \A buf : \A at \in Nat : Holds(buf, at, parts[k]) => DecodeSensor(buf, at) = items[k]
  <2>1. parts[k] = EncodeSensor(items[k]) /\ items[k] \in Sensors
    BY <1>1, <1>2
  <2> HIDE DEF n
  <2> QED BY <2>1, SensorRoundTrip
<1>4. parts \in Seq(Seq(Writes)) /\ Len(parts) = n
  <2>1. parts \in [1 .. n -> Seq(Writes)]
    BY <1>2, <1>3
  <2> QED BY <1>1, <2>1
<1>5. Concatenated(parts) \in Seq(Writes)
  <2>1. PICK f : /\ f[0] = <<>>
                 /\ \A k \in 1 .. Len(parts) : f[k] = f[k - 1] \o parts[k]
                 /\ Concatenated(parts) = f[Len(parts)]
                 /\ \A k \in 0 .. Len(parts) : f[k] \in Seq(Writes)
    BY <1>4, ConcatenatedIs
  <2>2. Len(parts) \in 0 .. Len(parts)
    BY <1>1, <1>4
  <2> QED BY <2>1, <2>2
<1> DEFINE total == FoldLeft(LAMBDA sum, i : sum + SensorSize(i), 0, items)
<1>6. total = SensorSizes!Folded(0, items)
  BY DEF SensorSizes!Folded, FoldLeft, MapThenFoldSet, Max,
         SensorSizes!MapThenFoldSet, SensorSizes!Greatest, PlusSensor
<1> HIDE DEF total
<1>7. PICK g : /\ g[0] = 0
               /\ \A k \in 1 .. Len(items) : g[k] = PlusSensor(g[k - 1], items[k])
               /\ SensorSizes!Folded(0, items) = g[Len(items)]
  <2>1. items \in Seq(Sensors)
    OBVIOUS
  <2>2. \A base : \E f : /\ f[0] = base
                         /\ \A k \in 1 .. Len(items) : f[k] = PlusSensor(f[k - 1], items[k])
                         /\ SensorSizes!Folded(base, items) = f[Len(items)]
    BY <2>1, SensorSizes!FoldLeftSteps
  <2> QED BY <2>2
<1>8. SizeOf(Concatenated(parts)) = total
  <2>1. \A k \in 1 .. Len(parts) : g[k] = g[k - 1] + SizeOf(parts[k])
    BY <1>3, <1>4, <1>7 DEF PlusSensor
  <2>2. SizeOf(Concatenated(parts)) = g[Len(parts)]
    BY <1>4, <1>7, <2>1, SizeOfConcatenated
  <2> QED BY <1>4, <1>6, <1>7, <2>2
<1>9. ASSUME NEW buf, NEW at \in Nat, Holds(buf, at, Concatenated(parts))
      PROVE  /\ Last(Places(n, buf, at)) = at + Len(Concatenated(parts))
             /\ [k \in 1 .. n |-> DecodeSensor(buf, Places(n, buf, at)[k])] = items
  <2>1. \A k \in 1 .. Len(parts) : Len(parts[k]) > 0 /\ Reads(parts[k][1].data) = Len(parts[k])
    BY <1>3, <1>4
  <2> DEFINE p == Places(Len(parts), buf, at)
  <2>2. /\ Last(p) = at + Len(Concatenated(parts))
        /\ \A k \in 1 .. Len(parts) : p[k] \in Nat /\ Holds(buf, p[k], parts[k])
    BY <1>4, <1>9, <2>1, PlacesAre
  <2>3. p = Places(n, buf, at)
    BY <1>4
  <2> HIDE DEF p, n
  <2>4. \A k \in 1 .. n : DecodeSensor(buf, p[k]) = items[k]
    BY <1>3, <1>4, <2>2
  <2>5. [k \in 1 .. n |-> DecodeSensor(buf, p[k])] = items
    BY <1>1, <2>4
  <2> QED BY <2>2, <2>3, <2>5
<1> QED BY <1>4, <1>5, <1>8, <1>9 DEF parts, total

\* Inputs and sensors are numbered as they come, and so is what comes next.
Numbered(m) ==
  /\ \A i \in 1 .. Len(m.inputs) : m.inputs[i].input_id = i - 1
  /\ \A i \in 1 .. Len(m.sensors) : m.sensors[i].id = i - 1
  /\ m.next_input_id = Len(m.inputs)
  /\ m.next_sensor_id = Len(m.sensors)

\* The next identifier is recovered from the last.
LEMMA NextIdIs ==
  ASSUME NEW n \in Nat, NEW ids, \A k \in 1 .. n : ids[k] = k - 1, DOMAIN ids = 1 .. n,
         ids = [k \in 1 .. n |-> ids[k]]
  PROVE  NextId(ids) = n
<1>1. ids \in Seq(Nat) /\ Len(ids) = n
  <2>1. ids \in [1 .. n -> Nat]
    OBVIOUS
  <2> QED BY <2>1
<1>2. CASE n = 0
  <2>1. ids = <<>>
    BY <1>1, <1>2
  <2> QED BY <1>2, <2>1 DEF NextId
<1>3. CASE n # 0
  <2>1. ids # <<>> /\ n \in 1 .. n
    BY <1>1, <1>3
  <2>2. Last(ids) = n - 1
    BY <1>1, <2>1 DEF Last
  <2> QED BY <2>1, <2>2 DEF NextId
<1> QED BY <1>2, <1>3

\* A module is read as it was written, and up to the place where its writes
\* end (Module.cc:183-291).
LEMMA ModuleRoundTrip ==
  ASSUME NEW m \in Modules, Numbered(m)
  PROVE  /\ EncodeModule(m) \in Seq(Writes)
         /\ SizeOf(EncodeModule(m)) = ModuleSize(m) /\ ModuleSize(m) \in Nat
         /\ \A buf : \A at \in Nat : Holds(buf, at, EncodeModule(m)) =>
              /\ DecodeModule(buf, at).module = m
              /\ DecodeModule(buf, at).at = at + Len(EncodeModule(m))
<1> DEFINE ni == Len(m.inputs)
           ns == Len(m.sensors)
           nn == NameLength(m.name)
           hd == [id |-> m.id, num_inputs |-> ni, num_sensors |-> ns, named |-> nn]
           w == Write(ModuleHeaderSize, hd)
           one == <<w>>
           name == EncodeName(m.name)
           ins == Concatenated(InputParts(m.inputs))
           sens == Concatenated(SensorParts(m.sensors))
           ws == EncodeModule(m)
<1>1. /\ m.id \in Nat /\ m.name \in Names \cup {NoName}
      /\ m.inputs \in Seq(Inputs) /\ m.sensors \in Seq(Sensors) /\ ni \in Nat /\ ns \in Nat
      /\ m = [id |-> m.id, name |-> m.name, inputs |-> m.inputs, sensors |-> m.sensors,
              next_input_id |-> m.next_input_id, next_sensor_id |-> m.next_sensor_id]
  BY DEF Modules
<1>2. /\ name \in Seq(Writes) /\ Len(name) = nn /\ nn \in {0, 1} /\ SizeOf(name) = nn
      /\ \A buf : \A at \in Nat : Holds(buf, at, name) => DecodeName(nn, buf, at) = m.name
  BY <1>1, NameRoundTrip
<1>3. /\ ins \in Seq(Writes) /\ SizeOf(ins) = InputsSize(m)
      /\ \A buf : \A at \in Nat : Holds(buf, at, ins) =>
           /\ Last(Places(ni, buf, at)) = at + Len(ins)
           /\ [k \in 1 .. ni |-> DecodeInput(buf, Places(ni, buf, at)[k])] = m.inputs
  BY <1>1, InputsRoundTrip DEF InputsSize
<1>4. /\ sens \in Seq(Writes) /\ SizeOf(sens) = SensorsSize(m)
      /\ \A buf : \A at \in Nat : Holds(buf, at, sens) =>
           /\ Last(Places(ns, buf, at)) = at + Len(sens)
           /\ [k \in 1 .. ns |-> DecodeSensor(buf, Places(ns, buf, at)[k])] = m.sensors
  BY <1>1, SensorsRoundTrip DEF SensorsSize
<1>5. hd \in ModuleHeaders /\ ModuleHeaderSize \in Nat
  BY <1>1, <1>2 DEF ModuleHeaders, ModuleHeaderSize
<1>6. /\ hd.id = m.id /\ hd.num_inputs = ni /\ hd.num_sensors = ns /\ hd.named = nn
  OBVIOUS
<1>7. ws = ((one \o name) \o ins) \o sens
  BY DEF EncodeModule, InputParts, SensorParts
<1> HIDE DEF hd, name, ins, sens, ws, ni, ns, nn
<1>8. w \in Writes /\ w.size = ModuleHeaderSize /\ w.data = hd
  BY <1>5 DEF Write, Writes
<1> HIDE DEF w
<1>9. one \in Seq(Writes) /\ Len(one) = 1 /\ one[1] = w /\ SizeOf(one) = ModuleHeaderSize
  BY <1>8, SizeOfOne
<1> HIDE DEF one
<1> DEFINE two == one \o name
           three == two \o ins
<1>10. /\ two \in Seq(Writes) /\ Len(two) = 1 + nn
       /\ SizeOf(two) = ModuleHeaderSize + nn
  BY <1>2, <1>9, SizeOfParts, Joined
<1>11. /\ three \in Seq(Writes) /\ Len(three) = (1 + nn) + Len(ins) /\ Len(ins) \in Nat
       /\ SizeOf(three) = ModuleHeaderSize + nn + InputsSize(m)
  <2> HIDE DEF two
  <2>1. three \in Seq(Writes) /\ Len(three) = (1 + nn) + Len(ins) /\ Len(ins) \in Nat
    <3>1. \A s, t \in Seq(Writes) : s \o t \in Seq(Writes) /\ Len(s \o t) = Len(s) + Len(t)
                                      /\ Len(t) \in Nat
      BY Joined
    <3> QED BY <1>3, <1>10, <3>1
  <2>2. SizeOf(three) = SizeOf(two) + SizeOf(ins)
    BY <1>3, <1>10, SizeOfParts
  <2> QED BY <1>3, <1>10, <2>1, <2>2
<1>12. /\ ws \in Seq(Writes) /\ Len(ws) = ((1 + nn) + Len(ins)) + Len(sens) /\ Len(sens) \in Nat
       /\ SizeOf(ws) = ModuleHeaderSize + nn + InputsSize(m) + SensorsSize(m)
  <2> HIDE DEF three
  <2>1. ws = three \o sens
    BY <1>7 DEF three
  <2> QED BY <1>4, <1>11, <2>1, SizeOfParts, Joined
<1>13. SizeOf(ws) = ModuleSize(m) /\ SizeOf(ws) \in Nat
  BY <1>12, SizeIs DEF ModuleSize, nn
<1>14. ASSUME NEW buf, NEW at \in Nat, Holds(buf, at, ws)
       PROVE  /\ buf[at] = w
              /\ Holds(buf, at + 1, name)
              /\ Holds(buf, at + 1 + nn, ins)
              /\ Holds(buf, at + 1 + nn + Len(ins), sens)
  <2>1. Holds(buf, at, three) /\ Holds(buf, at + Len(three), sens)
    <3>1. ws = three \o sens
      BY <1>7
    <3> HIDE DEF three
    <3> QED BY <1>4, <1>11, <1>14, <3>1, HoldsParts
  <2>2. Holds(buf, at, two) /\ Holds(buf, at + Len(two), ins)
    <3> HIDE DEF two
    <3> QED BY <1>3, <1>10, <2>1, HoldsParts
  <2>3. Holds(buf, at, one) /\ Holds(buf, at + 1, name)
    BY <1>2, <1>9, <2>2, HoldsParts
  <2>4. buf[at] = w
    <3>1. at + 1 - 1 = at
      OBVIOUS
    <3> QED BY <1>9, <2>3, <3>1 DEF Holds
  <2>5. at + Len(two) = at + 1 + nn /\ at + Len(three) = at + 1 + nn + Len(ins)
    <3> HIDE DEF two, three
    <3> QED BY <1>2, <1>10, <1>11
  <2> QED BY <2>1, <2>2, <2>3, <2>4, <2>5
<1> HIDE DEF two, three
<1>15. ASSUME NEW buf, NEW at \in Nat, Holds(buf, at, ws)
       PROVE  DecodeModule(buf, at).module = m /\ DecodeModule(buf, at).at = at + Len(ws)
  <2> DEFINE ins_at == Places(ni, buf, at + 1 + nn)
             sens_at == Places(ns, buf, Last(ins_at))
             is == [k \in 1 .. ni |-> DecodeInput(buf, ins_at[k])]
             ss == [k \in 1 .. ns |-> DecodeSensor(buf, sens_at[k])]
             next_i == NextId([k \in 1 .. ni |-> is[k].input_id])
             next_s == NextId([k \in 1 .. ns |-> ss[k].id])
             read == [id |-> hd.id, name |-> DecodeName(nn, buf, at + 1),
                      inputs |-> is, sensors |-> ss,
                      next_input_id |-> next_i, next_sensor_id |-> next_s]
  <2>1. buf[at].data = hd
    BY <1>8, <1>14, <1>15
  <2>2. DecodeModule(buf, at) = [module |-> read, at |-> Last(sens_at)]
    BY <1>6, <2>1 DEF DecodeModule
  <2>3. at + 1 \in Nat /\ at + 1 + nn \in Nat /\ at + 1 + nn + Len(ins) \in Nat
    BY <1>2, <1>11
  <2>4. Last(ins_at) = at + 1 + nn + Len(ins) /\ is = m.inputs
    BY <1>3, <1>14, <1>15, <2>3
  <2>5. Last(sens_at) = at + 1 + nn + Len(ins) + Len(sens) /\ ss = m.sensors
    BY <1>4, <1>14, <1>15, <2>3, <2>4
  <2>6. DecodeName(nn, buf, at + 1) = m.name
    BY <1>2, <1>14, <1>15, <2>3
  <2> HIDE DEF ins_at, sens_at
  <2>7. next_i = m.next_input_id
    <3> DEFINE ids == [k \in 1 .. ni |-> is[k].input_id]
    <3>1. DOMAIN ids = 1 .. ni /\ \A k \in 1 .. ni : ids[k] = k - 1
      <4> HIDE DEF is
      <4> QED BY <2>4 DEF Numbered, ni
    <3>2. ids = [k \in 1 .. ni |-> ids[k]]
      BY <3>1
    <3> HIDE DEF ids
    <3>3. NextId(ids) = ni
      BY <1>1, <3>1, <3>2, NextIdIs DEF ni
    <3> QED BY <3>3 DEF Numbered, ni, ids
  <2>8. next_s = m.next_sensor_id
    <3> DEFINE ids == [k \in 1 .. ns |-> ss[k].id]
    <3>1. DOMAIN ids = 1 .. ns /\ \A k \in 1 .. ns : ids[k] = k - 1
      <4> HIDE DEF ss
      <4> QED BY <2>5 DEF Numbered, ns
    <3>2. ids = [k \in 1 .. ns |-> ids[k]]
      BY <3>1
    <3> HIDE DEF ids
    <3>3. NextId(ids) = ns
      BY <1>1, <3>1, <3>2, NextIdIs DEF ns
    <3> QED BY <3>3 DEF Numbered, ns, ids
  <2> HIDE DEF is, ss, next_i, next_s
  <2>9. read = m
    BY <1>1, <1>6, <2>4, <2>5, <2>6, <2>7, <2>8
  <2>10. Last(sens_at) = at + Len(ws)
    <3>1. \A a, b, c, d \in Nat : a + 1 + b + c + d = a + (((1 + b) + c) + d)
      OBVIOUS
    <3>2. nn \in Nat
      BY <1>2
    <3>3. at + 1 + nn + Len(ins) + Len(sens) = at + (((1 + nn) + Len(ins)) + Len(sens))
      BY <1>11, <1>12, <3>1, <3>2
    <3> QED BY <1>12, <2>5, <3>3
  <2> QED BY <2>2, <2>9, <2>10
<1> QED BY <1>12, <1>13, <1>15 DEF ws

-----------------------------------------------------------------------------
(* Configurations. *)

ModuleParts(modules) == [k \in 1 .. Len(modules) |-> EncodeModule(modules[k])]

\* A configuration is read as it was written, but for the identifier that comes
\* next (Configuration.cc).
THEOREM ConfigurationRoundTrip ==
  ASSUME NEW c \in Configurations, \A k \in 1 .. Len(c.modules) : Numbered(c.modules[k])
  PROVE  /\ EncodeConfiguration(c) \in Seq(Writes)
         /\ SizeOf(EncodeConfiguration(c)) = ConfigurationSize(c) /\ ConfigurationSize(c) \in Nat
         /\ DecodeConfiguration(EncodeConfiguration(c)) = [modules |-> c.modules, next_module_id |-> 0]
<1> DEFINE modules == c.modules
           n == Len(modules)
           parts == ModuleParts(modules)
           body == Concatenated(parts)
           w == Write(ConfigurationHeaderSize, n)
           one == <<w>>
           buf == EncodeConfiguration(c)
<1>1. modules \in Seq(Modules) /\ n \in Nat /\ \A k \in 1 .. n : modules[k] \in Modules
  BY DEF Configurations
<1>2. parts = [k \in 1 .. n |-> EncodeModule(modules[k])]
  BY DEF ModuleParts
<1>3. buf = one \o body
  BY DEF EncodeConfiguration, ModuleParts
<1> HIDE DEF parts, body, buf
<1>4. ASSUME NEW k \in 1 .. n
      PROVE  /\ parts[k] = EncodeModule(modules[k]) /\ parts[k] \in Seq(Writes)
             /\ SizeOf(parts[k]) = ModuleSize(modules[k]) /\ ModuleSize(modules[k]) \in Nat
             /\ \A b : \A at \in Nat : Holds(b, at, parts[k]) =>
                  /\ DecodeModule(b, at).module = modules[k]
                  /\ DecodeModule(b, at).at = at + Len(parts[k])
  <2> DEFINE m == modules[k]
  <2>1. parts[k] = EncodeModule(m) /\ m \in Modules /\ Numbered(m)
    BY <1>1, <1>2
  <2> HIDE DEF m
  <2>2. /\ EncodeModule(m) \in Seq(Writes)
        /\ SizeOf(EncodeModule(m)) = ModuleSize(m) /\ ModuleSize(m) \in Nat
        /\ \A b : \A at \in Nat : Holds(b, at, EncodeModule(m)) =>
             /\ DecodeModule(b, at).module = m
             /\ DecodeModule(b, at).at = at + Len(EncodeModule(m))
    BY <2>1, ModuleRoundTrip
  <2> QED BY <2>1, <2>2 DEF m
<1>5. parts \in Seq(Seq(Writes)) /\ Len(parts) = n
  <2>1. parts \in [1 .. n -> Seq(Writes)]
    BY <1>2, <1>4
  <2> QED BY <1>1, <2>1
<1>6. body \in Seq(Writes)
  <2>1. PICK f : /\ f[0] = <<>>
                 /\ \A k \in 1 .. Len(parts) : f[k] = f[k - 1] \o parts[k]
                 /\ Concatenated(parts) = f[Len(parts)]
                 /\ \A k \in 0 .. Len(parts) : f[k] \in Seq(Writes)
    BY <1>5, ConcatenatedIs
  <2>2. Len(parts) \in 0 .. Len(parts)
    BY <1>1, <1>5
  <2> QED BY <2>1, <2>2 DEF body
<1> DEFINE total == FoldLeft(LAMBDA sum, m : sum + ModuleSize(m), 0, modules)
<1>7. total = ModuleSizes!Folded(0, modules)
  BY DEF ModuleSizes!Folded, FoldLeft, MapThenFoldSet, Max,
         ModuleSizes!MapThenFoldSet, ModuleSizes!Greatest, PlusModule
<1>8. ConfigurationSize(c) = ConfigurationHeaderSize + total
  BY DEF ConfigurationSize
<1> HIDE DEF total
<1>9. PICK g : /\ g[0] = 0
               /\ \A k \in 1 .. Len(modules) : g[k] = PlusModule(g[k - 1], modules[k])
               /\ ModuleSizes!Folded(0, modules) = g[Len(modules)]
  <2>1. modules \in Seq(Modules)
    BY <1>1
  <2>2. \A base : \E f : /\ f[0] = base
                         /\ \A k \in 1 .. Len(modules) : f[k] = PlusModule(f[k - 1], modules[k])
                         /\ ModuleSizes!Folded(base, modules) = f[Len(modules)]
    BY <2>1, ModuleSizes!FoldLeftSteps
  <2> QED BY <2>2
<1>10. SizeOf(body) = total
  <2>1. \A k \in 1 .. Len(parts) : g[k] = g[k - 1] + SizeOf(parts[k])
    BY <1>4, <1>5, <1>9 DEF PlusModule
  <2>2. SizeOf(Concatenated(parts)) = g[Len(parts)]
    BY <1>5, <1>9, <2>1, SizeOfConcatenated
  <2> QED BY <1>5, <1>7, <1>9, <2>2 DEF body
<1>11. w \in Writes /\ w.size = ConfigurationHeaderSize /\ w.data = n
  BY <1>1 DEF Write, Writes, ConfigurationHeaderSize
<1> HIDE DEF n, w
<1>12. one \in Seq(Writes) /\ Len(one) = 1 /\ one[1] = w /\ SizeOf(one) = ConfigurationHeaderSize
  BY <1>11, SizeOfOne
<1> HIDE DEF one
<1>13. /\ buf \in Seq(Writes) /\ Len(buf) = 1 + Len(body) /\ Len(body) \in Nat /\ buf[1] = w
       /\ SizeOf(buf) = ConfigurationHeaderSize + total
  <2>1. \A s, t \in Seq(Writes) :
          /\ s \o t \in Seq(Writes) /\ Len(s \o t) = Len(s) + Len(t) /\ Len(t) \in Nat
          /\ \A i \in 1 .. Len(s) : (s \o t)[i] = s[i]
    BY Joined
  <2>2. SizeOf(one \o body) = SizeOf(one) + SizeOf(body)
    BY <1>6, <1>12, SizeOfParts
  <2>3. /\ one \o body \in Seq(Writes) /\ Len(one \o body) = Len(one) + Len(body)
        /\ Len(body) \in Nat /\ (one \o body)[1] = one[1]
    <3>1. 1 \in 1 .. Len(one)
      BY <1>12
    <3> QED BY <1>6, <1>12, <2>1, <3>1
  <2> QED BY <1>3, <1>10, <1>12, <2>2, <2>3
<1>14. SizeOf(buf) \in Nat
  BY <1>13, SizeIs
<1>15. Holds(buf, 2, body)
  <2>1. Holds(buf, 1, buf)
    <3>1. \A i \in 1 .. Len(buf) : 1 + i - 1 = i
      BY <1>13
    <3> QED BY <3>1 DEF Holds
  <2>2. Holds(buf, 1, one \o body)
    BY <1>3, <2>1
  <2>3. 1 \in Nat /\ 1 + Len(one) = 2
    BY <1>12
  <2>4. Holds(buf, 1, one \o body) <=> Holds(buf, 1, one) /\ Holds(buf, 1 + Len(one), body)
    BY <1>6, <1>12, <2>3, HoldsParts
  <2> QED BY <2>2, <2>3, <2>4
<1>16. PICK p : /\ p[0] = 2 /\ p[Len(parts)] = 2 + Len(Concatenated(parts))
                /\ \A k \in 0 .. Len(parts) : p[k] \in Nat
                /\ \A k \in 1 .. Len(parts) : /\ p[k] = p[k - 1] + Len(parts[k])
                                              /\ Holds(buf, p[k - 1], parts[k])
  <2>1. 2 \in Nat
    OBVIOUS
  <2> QED BY <1>5, <1>15, <2>1, HoldsEach DEF body
<1> DEFINE bufs == [k \in 1 .. buf[1].data |-> buf]
           none == <<>>
           base == [items |-> none, at |-> 2]
<1>17. bufs \in Seq({buf}) /\ Len(bufs) = n /\ \A k \in 1 .. n : bufs[k] = buf
  <2>1. buf[1].data = n /\ n \in Nat
    BY <1>1, <1>11, <1>13 DEF n
  <2> QED BY <2>1
<1>18. DecodeConfiguration(buf)
         = [modules |-> Decodes!Folded(base, bufs).items, next_module_id |-> 0]
  BY DEF DecodeConfiguration, Decodes!Folded, FoldLeft, MapThenFoldSet, Max,
         Decodes!MapThenFoldSet, Decodes!Greatest
<1>19. base.items = none /\ base.at = 2
  OBVIOUS
<1> HIDE DEF bufs, base
<1>20. PICK q : /\ q[0] = base
                /\ \A k \in 1 .. Len(bufs) : q[k] = DecodeNext(q[k - 1], bufs[k])
                /\ Decodes!Folded(base, bufs) = q[Len(bufs)]
  <2>1. bufs \in Seq({buf})
    BY <1>17
  <2>2. \A b : \E f : /\ f[0] = b
                      /\ \A k \in 1 .. Len(bufs) : f[k] = DecodeNext(f[k - 1], bufs[k])
                      /\ Decodes!Folded(b, bufs) = f[Len(bufs)]
    BY <2>1, Decodes!FoldLeftSteps
  <2> QED BY <2>2
<1> DEFINE T == {k \in Nat : /\ q[k].items \in Seq(Modules) /\ Len(q[k].items) = k
                             /\ \A j \in 1 .. k : q[k].items[j] = modules[j]
                             /\ q[k].at = p[k]}
<1>21. 0 \in T
  <2>1. none \in Seq(Modules) /\ Len(none) = 0
    OBVIOUS
  <2> HIDE DEF none
  <2>2. q[0].items = none /\ q[0].at = p[0]
    BY <1>16, <1>19, <1>20
  <2>3. /\ q[0].items \in Seq(Modules) /\ Len(q[0].items) = 0 /\ q[0].at = p[0] /\ 0 \in Nat
    BY <2>1, <2>2
  <2>4. \A j \in 1 .. 0 : q[0].items[j] = modules[j]
    OBVIOUS
  <2> HIDE DEF modules
  <2> QED BY <2>3, <2>4
<1> HIDE DEF modules
<1>22. ASSUME NEW k \in 0 .. n - 1, k \in T PROVE k + 1 \in T
  <2>1. k \in Nat /\ k \in 0 .. n /\ k + 1 \in 1 .. n /\ (k + 1) - 1 = k
    BY <1>1 DEF n
  <2>2. /\ q[k].items \in Seq(Modules) /\ Len(q[k].items) = k
        /\ \A j \in 1 .. k : q[k].items[j] = modules[j]
        /\ q[k].at = p[k]
    BY <1>22
  <2> DEFINE m == DecodeModule(buf, p[k])
  <2>3. Holds(buf, p[k], parts[k + 1]) /\ p[k + 1] = p[k] + Len(parts[k + 1]) /\ p[k] \in Nat
    BY <1>5, <1>16, <2>1
  <2>4. m.module = modules[k + 1] /\ m.at = p[k + 1] /\ modules[k + 1] \in Modules
    <3>1. m.module = modules[k + 1] /\ m.at = p[k] + Len(parts[k + 1])
      BY <1>4, <2>1, <2>3
    <3>2. modules[k + 1] \in Modules
      BY <1>1, <2>1 DEF n
    <3> QED BY <2>3, <3>1, <3>2
  <2>5. q[k + 1] = [items |-> Append(q[k].items, m.module), at |-> m.at]
    BY <1>17, <1>20, <2>1, <2>2 DEF DecodeNext
  <2> HIDE DEF m
  <2> DEFINE s == q[k].items
             x == modules[k + 1]
  <2>6. q[k + 1].items = Append(s, x) /\ q[k + 1].at = p[k + 1]
    BY <2>4, <2>5
  <2>7. s \in Seq(Modules) /\ Len(s) = k /\ x \in Modules
    BY <2>2, <2>4
  <2> HIDE DEF s, x
  <2>8. /\ Append(s, x) \in Seq(Modules) /\ Len(Append(s, x)) = k + 1
        /\ \A j \in 1 .. k : Append(s, x)[j] = s[j]
        /\ Append(s, x)[k + 1] = x
    BY <2>1, <2>7
  <2>9. \A j \in 1 .. k + 1 : q[k + 1].items[j] = modules[j]
    <3> TAKE j \in 1 .. k + 1
    <3>1. CASE j \in 1 .. k
      BY <2>2, <2>6, <2>8, <3>1 DEF s
    <3>2. CASE j = k + 1
      BY <2>6, <2>8, <3>2 DEF x
    <3> QED BY <2>1, <3>1, <3>2
  <2>10. q[k + 1].items \in Seq(Modules) /\ Len(q[k + 1].items) = k + 1
    BY <2>6, <2>8
  <2>11. q[k + 1].at = p[k + 1] /\ k + 1 \in Nat
    BY <2>1, <2>6
  <2> QED BY <2>9, <2>10, <2>11
<1>23. n \in T
  <2> HIDE DEF T
  <2>1. n \in Nat
    BY <1>1 DEF n
  <2>2. \A k \in 0 .. n : k \in T
    BY <1>21, <1>22, <2>1, Sizes!CountingUp
  <2> QED BY <2>1, <2>2
<1>24. q[n].items = modules
  <2>1. /\ q[n].items \in Seq(Modules) /\ Len(q[n].items) = n
        /\ \A j \in 1 .. n : q[n].items[j] = modules[j]
    BY <1>23
  <2> DEFINE s == q[n].items
  <2> HIDE DEF s, T
  <2>2. s \in Seq(Modules) /\ Len(s) = Len(modules) /\ \A j \in 1 .. Len(s) : s[j] = modules[j]
    BY <2>1 DEF s, n
  <2>3. s = modules
    BY <1>1, <2>2
  <2> QED BY <2>3 DEF s
<1>25. DecodeConfiguration(buf) = [modules |-> modules, next_module_id |-> 0]
  BY <1>17, <1>18, <1>20, <1>24
<1> QED BY <1>8, <1>13, <1>14, <1>25 DEF buf, modules

-----------------------------------------------------------------------------
(* The states of the link. *)

\* A configuration as it is built or read.
Orderly(c) ==
  /\ c \in Configurations
  /\ \A k \in 1 .. Len(c.modules) :
       /\ Numbered(c.modules[k]) /\ c.modules[k].id = k - 1
       /\ Len(c.modules[k].inputs) <= MAX_INPUTS

\* One configuration is what another was before more was added to it.
SameUpTo(s, t) == Len(s) <= Len(t) /\ \A i \in 1 .. Len(s) : s[i] = t[i]

Before(c, d) ==
  /\ Len(c.modules) <= Len(d.modules)
  /\ \A k \in 1 .. Len(c.modules) :
       /\ c.modules[k].name = d.modules[k].name
       /\ SameUpTo(c.modules[k].inputs, d.modules[k].inputs)
       /\ SameUpTo(c.modules[k].sensors, d.modules[k].sensors)

Pairs == [input : Inputs, value : Values]

Controls ==
  [module_id : Nat, input_ids : SUBSET (0 .. ClearBit), module : Nat, values : Seq(Pairs)]

\* What a control says, and what a user asks of it.
Sayings ==
  [module : [id : Nat, name : Names \cup {NoName}], values : SUBSET Pairs,
   cleared : SUBSET Nat, reset : BOOLEAN]

Askings ==
  [module : [id : Nat, name : Names \cup {NoName}], values : SUBSET Pairs,
   cleared : SUBSET Nat, read : SUBSET Inputs, clears : BOOLEAN, reset : BOOLEAN]

\* The pairs of a control are values for inputs of its module.
PairsFit(c, m) ==
  \A k \in 1 .. Len(c.values) :
    LET i == c.values[k].input
    IN  /\ i.input_id \in c.input_ids /\ i.input_id + 1 \in 1 .. Len(m.inputs)
        /\ m.inputs[i.input_id + 1] = i

\* What the mask and the pairs of a control say.
SaysWhat(c, a) ==
  IF ClearBit \in c.input_ids
  THEN a.values = {} /\ a.cleared = c.input_ids \ {ClearBit}
  ELSE /\ c.input_ids = {c.values[k].input.input_id : k \in DOMAIN c.values}
       /\ a.values = ToSet(c.values) /\ a.cleared = {}

\* A control says a, of a module of a configuration.
Reflects(c, a, conf) ==
  /\ c \in Controls /\ a \in Sayings
  /\ c.module \in 1 .. Len(conf.modules)
  /\ a.module = [id |-> c.module - 1, name |-> conf.modules[c.module].name]
  /\ c.module_id = IF a.reset THEN 0 ELSE c.module - 1
  /\ InOrder(c.values) /\ PairsFit(c, conf.modules[c.module])
  /\ SaysWhat(c, a)

\* What a control says does what was asked of it.
Serves(c, a, conf) ==
  /\ a \in Askings
  /\ a.clears <=> ClearBit \in c.input_ids
  /\ \E says \in Sayings :
       Reflects(c, says, conf) /\ says.reset = a.reset /\ Does(says, a)

-----------------------------------------------------------------------------
(* Messages. *)

\* Writes of the same sizes take the same size.
LEMMA SizeOfSame ==
  ASSUME NEW s \in Seq(Writes), NEW t \in Seq(Writes), Len(s) = Len(t),
         \A i \in 1 .. Len(s) : s[i].size = t[i].size
  PROVE  SizeOf(s) = SizeOf(t)
<1> DEFINE n == Len(s)
<1>1. \A u \in Seq(Writes) :
        \E f : /\ f[0] = 0
               /\ \A k \in 1 .. Len(u) : f[k] = AddSize(f[k - 1], u[k])
               /\ SizeOf(u) = f[Len(u)]
  <2> TAKE u \in Seq(Writes)
  <2>1. SizeOf(u) = Sizes!Folded(0, u)
    BY DEF SizeOf, Sizes!Folded, FoldLeft, MapThenFoldSet, Max,
           Sizes!MapThenFoldSet, Sizes!Greatest, AddSize
  <2>2. \A base : \E f : /\ f[0] = base
                         /\ \A k \in 1 .. Len(u) : f[k] = AddSize(f[k - 1], u[k])
                         /\ Sizes!Folded(base, u) = f[Len(u)]
    <3>1. u \in Seq(Writes)
      OBVIOUS
    <3> QED BY <3>1, Sizes!FoldLeftSteps
  <2> QED BY <2>1, <2>2
<1>2. PICK f : /\ f[0] = 0
               /\ \A k \in 1 .. Len(s) : f[k] = AddSize(f[k - 1], s[k])
               /\ SizeOf(s) = f[Len(s)]
  BY <1>1
<1>3. PICK g : /\ g[0] = 0
               /\ \A k \in 1 .. Len(t) : g[k] = AddSize(g[k - 1], t[k])
               /\ SizeOf(t) = g[Len(t)]
  BY <1>1
<1> DEFINE T == {k \in Nat : f[k] = g[k]}
<1>4. n \in Nat
  OBVIOUS
<1> HIDE DEF n
<1>5. 0 \in T
  BY <1>2, <1>3
<1>6. ASSUME NEW k \in 0 .. n - 1, k \in T PROVE k + 1 \in T
  <2>1. k \in Nat /\ k + 1 \in 1 .. n /\ (k + 1) - 1 = k
    BY <1>4
  <2>2. f[k] = g[k]
    BY <1>6
  <2>3. f[k + 1] = f[k] + s[k + 1].size /\ g[k + 1] = g[k] + t[k + 1].size
    BY <1>2, <1>3, <2>1 DEF AddSize, n
  <2>4. s[k + 1].size = t[k + 1].size
    BY <2>1 DEF n
  <2> QED BY <2>1, <2>2, <2>3, <2>4
<1>7. n \in T
  <2> HIDE DEF T
  <2>1. \A k \in 0 .. n : k \in T
    BY <1>4, <1>5, <1>6, Sizes!CountingUp
  <2> QED BY <1>4, <2>1
<1> QED BY <1>2, <1>3, <1>7 DEF n

\* A buffer of the size of the writes takes them all (Message.hh).
LEMMA FillAll ==
  ASSUME NEW ws \in Seq(Writes)
  PROVE  Fill(SizeOf(ws), ws) = ws
<1> DEFINE n == Len(ws)
           total == SizeOf(ws)
           Part(i) == SubSeq(ws, 1, i)
           none == <<>>
           base == [body |-> none, room |-> total]
<1>1. /\ n \in Nat /\ total \in Nat
      /\ Part(0) = none /\ Part(n) = ws /\ none \in Seq(Writes)
      /\ \A i \in 0 .. n : Part(i) \in Seq(Writes)
  BY SizeIs
<1>2. \A i \in 0 .. n - 1 : /\ ws[i + 1] \in Writes /\ Part(i + 1) = Append(Part(i), ws[i + 1])
                            /\ SubSeq(ws, i + 2, n) \in Seq(Writes)
                            /\ ws = Part(i + 1) \o SubSeq(ws, i + 2, n)
  <2> TAKE i \in 0 .. n - 1
  <2>1. i \in Nat /\ i + 1 \in 1 .. n
    BY <1>1
  <2>2. /\ Part(i) \in Seq(Writes) /\ Len(Part(i)) = i
        /\ Part(i + 1) \in Seq(Writes) /\ Len(Part(i + 1)) = i + 1
        /\ \A k \in 1 .. i : Part(i)[k] = ws[k]
        /\ \A k \in 1 .. i + 1 : Part(i + 1)[k] = ws[k]
    BY <2>1
  <2> DEFINE a == Append(Part(i), ws[i + 1])
             rest == SubSeq(ws, i + 2, n)
             all == Part(i + 1) \o rest
  <2>3. /\ ws[i + 1] \in Writes /\ a \in Seq(Writes) /\ Len(a) = i + 1
        /\ \A k \in 1 .. i : a[k] = Part(i)[k]
        /\ a[i + 1] = ws[i + 1]
    BY <2>1, <2>2
  <2>4. /\ rest \in Seq(Writes) /\ Len(rest) = n - (i + 1)
        /\ \A k \in 1 .. n - (i + 1) : rest[k] = ws[(i + 1) + k]
    BY <2>1
  <2> HIDE DEF a, Part, rest
  <2>5. Part(i + 1) = a
    <3>1. \A k \in 1 .. i + 1 : Part(i + 1)[k] = a[k]
      <4> TAKE k \in 1 .. i + 1
      <4>1. k \in 1 .. i \/ k = i + 1
        BY <2>1
      <4> QED BY <2>2, <2>3, <4>1
    <3> QED BY <2>2, <2>3, <3>1
  <2>6. /\ all \in Seq(Writes) /\ Len(all) = n
        /\ \A k \in 1 .. i + 1 : all[k] = Part(i + 1)[k]
        /\ \A k \in 1 .. n - (i + 1) : all[(i + 1) + k] = rest[k]
    <3>1. \A s, t \in Seq(Writes) :
            /\ s \o t \in Seq(Writes) /\ Len(s \o t) = Len(s) + Len(t)
            /\ \A k \in 1 .. Len(s) : (s \o t)[k] = s[k]
            /\ \A k \in 1 .. Len(t) : (s \o t)[Len(s) + k] = t[k]
      BY Joined
    <3> DEFINE s == Part(i + 1)
    <3>2. s \in Seq(Writes) /\ rest \in Seq(Writes) /\ Len(s) = i + 1 /\ Len(rest) = n - (i + 1)
      BY <2>2, <2>4
    <3>3. (i + 1) + (n - (i + 1)) = n
      BY <1>1, <2>1
    <3> HIDE DEF s
    <3>4. /\ s \o rest \in Seq(Writes) /\ Len(s \o rest) = Len(s) + Len(rest)
          /\ \A k \in 1 .. Len(s) : (s \o rest)[k] = s[k]
          /\ \A k \in 1 .. Len(rest) : (s \o rest)[Len(s) + k] = rest[k]
      BY <3>1, <3>2
    <3>5. all = s \o rest
      BY DEF s
    <3> HIDE DEF all
    <3> QED BY <3>2, <3>3, <3>4, <3>5 DEF s
  <2> HIDE DEF all
  <2>7. \A k \in 1 .. n : all[k] = ws[k]
    <3> TAKE k \in 1 .. n
    <3>1. CASE k \in 1 .. i + 1
      BY <2>2, <2>6, <3>1
    <3>2. CASE k > i + 1
      <4>1. k - (i + 1) \in 1 .. n - (i + 1) /\ (i + 1) + (k - (i + 1)) = k
        BY <1>1, <2>1, <3>2
      <4> QED BY <2>4, <2>6, <4>1
    <3> QED BY <2>1, <3>1, <3>2
  <2>8. all = ws
    BY <2>6, <2>7
  <2> QED BY <2>3, <2>4, <2>5, <2>8 DEF a, all, rest
<1>3. Fill(total, ws) = Fills!Folded(base, ws).body
  BY DEF Fill, Fills!Folded, FoldLeft, MapThenFoldSet, Max,
         Fills!MapThenFoldSet, Fills!Greatest
<1>4. base.body = none /\ base.room = total
  OBVIOUS
<1> HIDE DEF base, total
<1>5. PICK f : /\ f[0] = base
               /\ \A k \in 1 .. Len(ws) : f[k] = FillNext(f[k - 1], ws[k])
               /\ Fills!Folded(base, ws) = f[Len(ws)]
  <2>1. ws \in Seq(Writes)
    OBVIOUS
  <2>2. \A b : \E f : /\ f[0] = b
                      /\ \A k \in 1 .. Len(ws) : f[k] = FillNext(f[k - 1], ws[k])
                      /\ Fills!Folded(b, ws) = f[Len(ws)]
    BY <2>1, Fills!FoldLeftSteps
  <2> QED BY <2>2
<1> HIDE DEF n, Part, none
<1> DEFINE T == {k \in Nat : f[k].body = Part(k) /\ f[k].room + SizeOf(Part(k)) = total
                             /\ f[k].room \in Nat}
<1>6. 0 \in T
  <2>1. SizeOf(Part(0)) = 0
    BY <1>1, SizeIs DEF none
  <2> QED BY <1>1, <1>4, <1>5, <2>1
<1>7. ASSUME NEW k \in 0 .. n - 1, k \in T PROVE k + 1 \in T
  <2> DEFINE w == ws[k + 1]
             p == Part(k)
             rest == SubSeq(ws, k + 2, n)
  <2>1. k \in Nat /\ k \in 0 .. n /\ k + 1 \in 1 .. n /\ (k + 1) - 1 = k
    BY <1>1
  <2>2. f[k].body = p /\ f[k].room + SizeOf(p) = total /\ f[k].room \in Nat
    BY <1>7
  <2>3. /\ w \in Writes /\ Part(k + 1) = Append(p, w) /\ p \in Seq(Writes)
        /\ rest \in Seq(Writes) /\ ws = Append(p, w) \o rest
    BY <1>1, <1>2, <2>1
  <2>4. f[k + 1] = FillNext(f[k], w)
    BY <1>5, <2>1 DEF n
  <2> HIDE DEF w, p, rest
  <2>5. SizeOf(Append(p, w)) = SizeOf(p) + w.size /\ SizeOf(p) \in Nat /\ w.size \in Nat
    BY <2>3, SizeIs DEF Writes
  <2>6. total = SizeOf(p) + w.size + SizeOf(rest) /\ SizeOf(rest) \in Nat
    <3>1. Append(p, w) \in Seq(Writes)
      BY <2>3
    <3>2. SizeOf(Append(p, w) \o rest) = SizeOf(Append(p, w)) + SizeOf(rest)
      BY <2>3, <3>1, SizeOfParts
    <3> QED BY <2>3, <2>5, <3>2, SizeIs DEF total
  <2>7. ~(f[k].room < w.size)
    BY <2>2, <2>5, <2>6
  <2>8. f[k + 1].body = Append(p, w) /\ f[k + 1].room = f[k].room - w.size
    BY <2>2, <2>4, <2>7 DEF FillNext
  <2>9. f[k + 1].room + SizeOf(Append(p, w)) = total /\ f[k + 1].room \in Nat
    BY <2>2, <2>5, <2>7, <2>8
  <2>10. /\ f[k + 1].body = Part(k + 1) /\ f[k + 1].room + SizeOf(Part(k + 1)) = total
         /\ f[k + 1].room \in Nat /\ k + 1 \in Nat
    <3>1. Part(k + 1) = Append(p, w)
      BY <2>3
    <3>2. SizeOf(Part(k + 1)) = SizeOf(Append(p, w))
      BY <3>1
    <3>3. k + 1 \in Nat
      BY <2>1
    <3>4. f[k + 1].body = Part(k + 1)
      BY <2>8, <3>1
    <3> QED BY <2>9, <3>2, <3>3, <3>4
  <2> QED BY <2>10
<1>8. n \in T
  <2> HIDE DEF T
  <2>1. \A k \in 0 .. n : k \in T
    BY <1>1, <1>6, <1>7, Sizes!CountingUp
  <2> QED BY <1>1, <2>1
<1>9. f[n].body = ws
  BY <1>1, <1>8
<1> QED BY <1>3, <1>5, <1>9 DEF n, total

\* A message that was not damaged has the body that was encoded, and damage
\* changes no sizes (Message.hh, Message.cc).
LEMMA MessageIs ==
  ASSUME NEW type, type # "CONFIGURATION_QUERY", NEW ws \in Seq(Writes), NEW ghost, NEW I,
         I = Message(type, SizeOf(ws), ws, ghost), NEW m \in {I, Damage(I)}
  PROVE  /\ m.type = type /\ m.meant = ghost /\ Damage(m) = Damage(I)
         /\ Len(m.body) = m.writes /\ m.length = SizeOf(m.body) + MESSAGE_CHECKSUM_SIZE
         /\ has_checksum(m.type) /\ (checksum_ok(m) => m.body = ws)
<1> DEFINE size == SizeOf(ws)
           n == Len(ws)
           m0 == [type |-> type, length |-> size + MESSAGE_CHECKSUM_SIZE, body |-> ws,
                  checksum |-> <<>>, writes |-> n, meant |-> ghost]
           sum == compute_checksum(m0)
           hurt == [k \in 1 .. n |-> [ws[k] EXCEPT !.data = Absent]]
           D == [type |-> type, length |-> size + MESSAGE_CHECKSUM_SIZE, body |-> hurt,
                 checksum |-> sum, writes |-> n, meant |-> ghost]
<1>1. n \in Nat /\ size \in Nat /\ DOMAIN ws = 1 .. n /\ \A k \in 1 .. n : ws[k] \in Writes
  BY SizeIs
<1>2. Fill(size, ws) = ws
  BY FillAll
<1>3. I = [m0 EXCEPT !.checksum = sum]
  BY <1>2 DEF Message
<1>4. sum = <<type, size + MESSAGE_CHECKSUM_SIZE, ws>>
  BY DEF compute_checksum, has_checksum
<1> HIDE DEF size, n, hurt
<1>5. I = [type |-> type, length |-> size + MESSAGE_CHECKSUM_SIZE, body |-> ws,
           checksum |-> sum, writes |-> n, meant |-> ghost]
  <2> HIDE DEF sum
  <2> QED BY <1>3
<1> HIDE DEF m0, sum
<1>6. /\ hurt \in Seq(Writes) /\ Len(hurt) = n /\ DOMAIN hurt = 1 .. n
      /\ \A k \in 1 .. n : hurt[k] = [size |-> ws[k].size, data |-> Absent]
  <2>1. \A w \in Writes : /\ [w EXCEPT !.data = Absent] = [size |-> w.size, data |-> Absent]
                          /\ [size |-> w.size, data |-> Absent] \in Writes
    BY DEF Writes
  <2>2. \A k \in 1 .. n : hurt[k] = [size |-> ws[k].size, data |-> Absent] /\ hurt[k] \in Writes
    BY <1>1, <2>1 DEF hurt
  <2>3. hurt \in [1 .. n -> Writes] /\ DOMAIN hurt = 1 .. n
    BY <2>2 DEF hurt
  <2> QED BY <1>1, <2>2, <2>3
<1>7. Damage(I) = D
  <2>1. [k \in DOMAIN ws |-> [ws[k] EXCEPT !.data = Absent]] = hurt
    BY <1>1 DEF hurt
  <2>2. I.body = ws
    BY <1>5
  <2>3. Damage(I) = [I EXCEPT !.body = hurt]
    BY <2>1, <2>2 DEF Damage
  <2> QED BY <1>5, <2>3
<1>8. Damage(D) = D
  <2>1. [k \in DOMAIN hurt |-> [hurt[k] EXCEPT !.data = Absent]] = hurt
    <3>1. \A k \in 1 .. n : [hurt[k] EXCEPT !.data = Absent] = hurt[k]
      <4>1. \A x : [[size |-> x, data |-> Absent] EXCEPT !.data = Absent]
                      = [size |-> x, data |-> Absent]
        OBVIOUS
      <4> QED BY <1>6, <4>1
    <3> DEFINE again == [k \in DOMAIN hurt |-> [hurt[k] EXCEPT !.data = Absent]]
    <3>2. DOMAIN again = 1 .. n /\ \A k \in 1 .. n : again[k] = hurt[k]
      BY <1>6, <3>1
    <3>3. again = [k \in 1 .. n |-> again[k]] /\ hurt = [k \in 1 .. n |-> hurt[k]]
      BY <1>6 DEF hurt
    <3> HIDE DEF again
    <3>4. again = hurt
      BY <3>2, <3>3
    <3> QED BY <3>4 DEF again
  <2>2. D.body = hurt
    OBVIOUS
  <2>3. Damage(D) = [D EXCEPT !.body = hurt]
    BY <2>1, <2>2 DEF Damage
  <2> QED BY <2>3
<1>9. SizeOf(hurt) = size
  <2>1. Len(ws) = Len(hurt) /\ \A i \in 1 .. Len(ws) : ws[i].size = hurt[i].size
    BY <1>6 DEF n
  <2> QED BY <1>6, <2>1, SizeOfSame DEF size
<1>10. CASE m = I
  <2>1. /\ m.type = type /\ m.meant = ghost /\ Damage(m) = Damage(I) /\ m.body = ws
        /\ m.writes = n /\ m.length = size + MESSAGE_CHECKSUM_SIZE
    BY <1>5, <1>10
  <2> QED BY <2>1 DEF has_checksum, n, size
<1>11. CASE m = D
  <2>1. /\ m.type = type /\ m.meant = ghost /\ Damage(m) = Damage(I) /\ m.body = hurt
        /\ m.writes = n /\ m.length = size + MESSAGE_CHECKSUM_SIZE /\ m.checksum = sum
    BY <1>7, <1>8, <1>11
  <2>2. ASSUME checksum_ok(m) PROVE m.body = ws
    <3>1. m.checksum = <<type, size + MESSAGE_CHECKSUM_SIZE, hurt>>
      BY <2>1, <2>2 DEF checksum_ok, compute_checksum, has_checksum
    <3>2. \A a, b, c, x, y, z : <<a, b, c>> = <<x, y, z>> => c = z
      OBVIOUS
    <3> QED BY <1>4, <2>1, <3>1, <3>2
  <2> QED BY <1>6, <1>9, <2>1, <2>2 DEF has_checksum
<1> QED BY <1>7, <1>10, <1>11

-----------------------------------------------------------------------------
(* Configurations that grow. *)

\* Every configuration is itself with nothing added.
LEMMA BeforeItself ==
  ASSUME NEW c \in Configurations PROVE Before(c, c)
<1>1. Len(c.modules) \in Nat /\ \A k \in 1 .. Len(c.modules) : c.modules[k] \in Modules
  BY DEF Configurations
<1>2. \A k \in 1 .. Len(c.modules) :
        Len(c.modules[k].inputs) \in Nat /\ Len(c.modules[k].sensors) \in Nat
  BY <1>1 DEF Modules
<1> QED BY <1>1, <1>2 DEF Before, SameUpTo

\* What was added to what had been added was added.
LEMMA BeforeAgain ==
  ASSUME NEW c \in Configurations, NEW d \in Configurations, NEW e \in Configurations,
         Before(c, d), Before(d, e)
  PROVE  Before(c, e)
<1>1. /\ Len(c.modules) \in Nat /\ Len(d.modules) \in Nat /\ Len(e.modules) \in Nat
      /\ \A k \in 1 .. Len(c.modules) : c.modules[k] \in Modules
      /\ \A k \in 1 .. Len(d.modules) : d.modules[k] \in Modules
      /\ \A k \in 1 .. Len(e.modules) : e.modules[k] \in Modules
  BY DEF Configurations
<1>2. \A m \in Modules : Len(m.inputs) \in Nat /\ Len(m.sensors) \in Nat
  BY DEF Modules
<1>3. \A s, t, u : Len(s) \in Nat /\ Len(t) \in Nat /\ Len(u) \in Nat
                     /\ SameUpTo(s, t) /\ SameUpTo(t, u) => SameUpTo(s, u)
  BY DEF SameUpTo
<1>4. Len(c.modules) <= Len(e.modules)
  BY <1>1 DEF Before
<1>5. ASSUME NEW k \in 1 .. Len(c.modules)
      PROVE  /\ c.modules[k].name = e.modules[k].name
             /\ SameUpTo(c.modules[k].inputs, e.modules[k].inputs)
             /\ SameUpTo(c.modules[k].sensors, e.modules[k].sensors)
  <2>1. k \in 1 .. Len(d.modules) /\ k \in 1 .. Len(e.modules)
    BY <1>1 DEF Before
  <2>2. c.modules[k] \in Modules /\ d.modules[k] \in Modules /\ e.modules[k] \in Modules
    BY <1>1, <2>1
  <2>3. /\ c.modules[k].name = d.modules[k].name /\ d.modules[k].name = e.modules[k].name
        /\ SameUpTo(c.modules[k].inputs, d.modules[k].inputs)
        /\ SameUpTo(c.modules[k].sensors, d.modules[k].sensors)
        /\ SameUpTo(d.modules[k].inputs, e.modules[k].inputs)
        /\ SameUpTo(d.modules[k].sensors, e.modules[k].sensors)
    BY <2>1 DEF Before
  <2> QED BY <1>2, <1>3, <2>2, <2>3
<1> QED BY <1>4, <1>5 DEF Before

\* A generic declaration has some of the limits (DataDeclarationBase.hh).
LEMMA GenericDeclares ==
  ASSUME NEW t \in TypedDeclarations PROVE Generic(t) \in Declarations
<1> DEFINE has == Given(t)
           given == [l \in has |-> t.limit[l]]
           swapped == [l \in has |-> t.limit[IF l = "minimum" THEN "neutral" ELSE l]]
<1>1. /\ t = [type |-> t.type, width |-> t.width, limit |-> t.limit]
      /\ t.type \in {"INTEGER", "FLOAT"} /\ t.width \in 1 .. 2
      /\ \A l \in Limits : t.limit[l] \in Values \cup {Absent}
  BY DEF TypedDeclarations
<1>2. has \in SUBSET Limits /\ "neutral" \in Limits
  BY DEF Given, Limits
<1> HIDE DEF has
<1>3. given \in [has -> Values \cup {Absent}] /\ swapped \in [has -> Values \cup {Absent}]
  BY <1>1, <1>2
<1>4. \A f \in [has -> Values \cup {Absent}] :
        [type |-> t.type, width |-> t.width, limit |-> f] \in Declarations
  BY <1>1, <1>2 DEF Declarations
<1> HIDE DEF given, swapped
<1>5. GenericInteger(t) = [type |-> t.type, width |-> t.width, limit |-> given]
  <2>1. GenericInteger(t) = [t EXCEPT !.limit = given]
    BY DEF GenericInteger, given, has
  <2> QED BY <1>1, <2>1
<1>6. GenericFloat(t) = [type |-> t.type, width |-> t.width, limit |-> swapped]
  <2>1. GenericFloat(t) = [t EXCEPT !.limit = swapped]
    BY DEF GenericFloat, swapped, has
  <2> QED BY <1>1, <2>1
<1> QED BY <1>3, <1>4, <1>5, <1>6 DEF Generic

\* One element more.
LEMMA OneMore ==
  ASSUME NEW S, NEW s \in Seq(S), NEW x \in S
  PROVE  /\ Append(s, x) \in Seq(S) /\ Len(Append(s, x)) = Len(s) + 1 /\ Len(s) \in Nat
         /\ \A i \in 1 .. Len(s) : Append(s, x)[i] = s[i]
         /\ Append(s, x)[Len(s) + 1] = x
         /\ SameUpTo(s, Append(s, x))
BY DEF SameUpTo

\* A module that grows leaves the configuration in order (Configuration.cc).
LEMMA ModuleGrows ==
  ASSUME NEW c, Orderly(c), NEW k \in 1 .. Len(c.modules), NEW m \in Modules,
         m.id = c.modules[k].id, m.name = c.modules[k].name, Numbered(m),
         SameUpTo(c.modules[k].inputs, m.inputs), SameUpTo(c.modules[k].sensors, m.sensors),
         Len(m.inputs) <= MAX_INPUTS
  PROVE  LET d == [c EXCEPT !.modules[k] = m]
         IN  /\ Orderly(d) /\ Before(c, d)
             /\ Len(d.modules) = Len(c.modules) /\ d.next_module_id = c.next_module_id
<1> DEFINE ms == [c.modules EXCEPT ![k] = m]
           d == [modules |-> ms, next_module_id |-> c.next_module_id]
<1>1. /\ c \in Configurations /\ c.modules \in Seq(Modules) /\ c.next_module_id \in Nat
      /\ c = [modules |-> c.modules, next_module_id |-> c.next_module_id]
  BY DEF Orderly, Configurations
<1>2. [c EXCEPT !.modules[k] = m] = d
  <2>1. [c EXCEPT !.modules[k] = m] = [c EXCEPT !.modules = ms]
    OBVIOUS
  <2> HIDE DEF ms
  <2>2. [c EXCEPT !.modules = ms] = d
    BY <1>1
  <2> QED BY <2>1, <2>2
<1>3. /\ ms \in Seq(Modules) /\ Len(ms) = Len(c.modules) /\ Len(ms) \in Nat /\ ms[k] = m
      /\ \A j \in 1 .. Len(c.modules) : j # k => ms[j] = c.modules[j]
  BY <1>1
<1> HIDE DEF ms
<1>4. d \in Configurations /\ d.modules = ms /\ d.next_module_id = c.next_module_id
  BY <1>1, <1>3 DEF Configurations
<1> HIDE DEF d
<1>5. Orderly(d)
  <2>1. \A j \in 1 .. Len(ms) : /\ Numbered(ms[j]) /\ ms[j].id = j - 1
                                /\ Len(ms[j].inputs) <= MAX_INPUTS
    <3> TAKE j \in 1 .. Len(ms)
    <3>1. CASE j = k
      BY <1>3, <3>1 DEF Orderly
    <3>2. CASE j # k
      BY <1>3, <3>2 DEF Orderly
    <3> QED BY <3>1, <3>2
  <2> QED BY <1>4, <2>1 DEF Orderly
<1>6. Before(c, d)
  <2>1. Before(c, c)
    BY <1>1, BeforeItself
  <2>2. \A j \in 1 .. Len(c.modules) :
          /\ c.modules[j].name = ms[j].name
          /\ SameUpTo(c.modules[j].inputs, ms[j].inputs)
          /\ SameUpTo(c.modules[j].sensors, ms[j].sensors)
    <3> TAKE j \in 1 .. Len(c.modules)
    <3>1. CASE j = k
      BY <1>3, <3>1
    <3>2. CASE j # k
      BY <1>3, <2>1, <3>2 DEF Before
    <3> QED BY <3>1, <3>2
  <2> QED BY <1>3, <1>4, <2>2 DEF Before
<1> QED BY <1>2, <1>3, <1>4, <1>5, <1>6

\* A new module comes last, under the next identifier (Configuration.cc).
LEMMA AddModuleGrows ==
  ASSUME NEW c, Orderly(c), c.next_module_id = Len(c.modules), NEW name \in Names
  PROVE  LET d == add_module(c, name)
         IN  Orderly(d) /\ Before(c, d) /\ d.next_module_id = Len(d.modules)
<1> DEFINE n == Len(c.modules)
           none == <<>>
           m == NewModule(n, name)
           ms == Append(c.modules, m)
           d == add_module(c, name)
<1>1. c \in Configurations /\ c.modules \in Seq(Modules) /\ n \in Nat
  BY DEF Orderly, Configurations
<1>2. /\ m = [id |-> n, name |-> name, inputs |-> none, sensors |-> none,
              next_input_id |-> 0, next_sensor_id |-> 0]
      /\ none \in Seq(Inputs) /\ none \in Seq(Sensors) /\ Len(none) = 0
  BY DEF NewModule
<1> HIDE DEF m, none
<1>3. /\ m \in Modules /\ m.id = n /\ m.name = name /\ m.inputs = none /\ m.sensors = none
      /\ m.next_input_id = 0 /\ m.next_sensor_id = 0
  BY <1>1, <1>2 DEF Modules
<1>4. Numbered(m) /\ Len(m.inputs) <= MAX_INPUTS
  BY <1>2, <1>3, ControlLinkAssumption DEF Numbered, MAX_INPUTS
<1>5. d = [modules |-> ms, next_module_id |-> n + 1]
  BY DEF add_module, m
<1> HIDE DEF d
<1>6. /\ ms \in Seq(Modules) /\ Len(ms) = n + 1
      /\ \A k \in 1 .. n : ms[k] = c.modules[k]
      /\ ms[n + 1] = m
  BY <1>1, <1>3, OneMore
<1> HIDE DEF ms
<1>7. d.modules = ms /\ d.next_module_id = n + 1 /\ d \in Configurations
  BY <1>1, <1>5, <1>6 DEF Configurations
<1> HIDE DEF n
<1>8. Orderly(d)
  <2>1. \A j \in 1 .. Len(ms) : /\ Numbered(ms[j]) /\ ms[j].id = j - 1
                                /\ Len(ms[j].inputs) <= MAX_INPUTS
    <3> TAKE j \in 1 .. Len(ms)
    <3>1. CASE j = n + 1
      BY <1>1, <1>3, <1>4, <1>6, <3>1
    <3>2. CASE j # n + 1
      <4>1. j \in 1 .. n
        BY <1>1, <1>6, <3>2
      <4> QED BY <1>6, <4>1 DEF Orderly, n
    <3> QED BY <3>1, <3>2
  <2> QED BY <1>7, <2>1 DEF Orderly
<1>9. Before(c, d)
  <2>1. Before(c, c)
    BY <1>1, BeforeItself
  <2> QED BY <1>1, <1>6, <1>7, <2>1 DEF Before, n
<1> QED BY <1>6, <1>7, <1>8, <1>9 DEF d

\* A new input comes last, under the next identifier (Module.cc).
LEMMA AddInputGrows ==
  ASSUME NEW m \in Modules, Numbered(m), NEW name \in Names, NEW t \in TypedDeclarations
  PROVE  LET d == add_input(m, name, t)
         IN  /\ d \in Modules /\ d.id = m.id /\ d.name = m.name /\ Numbered(d)
             /\ SameUpTo(m.inputs, d.inputs) /\ SameUpTo(m.sensors, d.sensors)
             /\ Len(d.inputs) = Len(m.inputs) + 1
<1> DEFINE i == [input_id |-> m.next_input_id, name |-> name, data_type |-> Generic(t)]
           is == Append(m.inputs, i)
           n == Len(m.inputs)
           next == m.next_input_id + 1
           d == add_input(m, name, t)
<1>1. /\ m = [id |-> m.id, name |-> m.name, inputs |-> m.inputs, sensors |-> m.sensors,
              next_input_id |-> m.next_input_id, next_sensor_id |-> m.next_sensor_id]
      /\ m.id \in Nat /\ m.name \in Names \cup {NoName}
      /\ m.inputs \in Seq(Inputs) /\ m.sensors \in Seq(Sensors) /\ n \in Nat
      /\ m.next_input_id \in Nat /\ m.next_sensor_id \in Nat
  BY DEF Modules
<1>2. i \in Inputs /\ i.input_id = m.next_input_id
  BY <1>1, GenericDeclares DEF Inputs
<1>3. d = [m EXCEPT !.inputs = is, !.next_input_id = next]
  BY DEF add_input
<1> HIDE DEF i
<1>4. /\ is \in Seq(Inputs) /\ Len(is) = n + 1 /\ SameUpTo(m.inputs, is)
      /\ \A k \in 1 .. n : is[k] = m.inputs[k]
      /\ is[n + 1] = i
  BY <1>1, <1>2, OneMore
<1> HIDE DEF is, next, d
<1>5. d = [id |-> m.id, name |-> m.name, inputs |-> is, sensors |-> m.sensors,
           next_input_id |-> next, next_sensor_id |-> m.next_sensor_id]
  BY <1>1, <1>3
<1>6. /\ d.id = m.id /\ d.name = m.name /\ d.inputs = is /\ d.sensors = m.sensors
      /\ d.next_input_id = next /\ d.next_sensor_id = m.next_sensor_id
  BY <1>5
<1>7. d \in Modules
  <2>1. next \in Nat
    BY <1>1 DEF next
  <2> QED BY <1>1, <1>4, <1>5, <2>1 DEF Modules
<1>8. Numbered(d)
  <2>1. next = n + 1 /\ i.input_id = n
    BY <1>2 DEF Numbered, next
  <2>2. \A k \in 1 .. Len(is) : is[k].input_id = k - 1
    <3> TAKE k \in 1 .. Len(is)
    <3>1. CASE k = n + 1
      BY <1>1, <1>4, <2>1, <3>1
    <3>2. CASE k # n + 1
      <4>1. k \in 1 .. n
        BY <1>1, <1>4, <3>2
      <4> QED BY <1>4, <4>1 DEF Numbered
    <3> QED BY <3>1, <3>2
  <2> QED BY <1>4, <1>6, <2>1, <2>2 DEF Numbered
<1>9. SameUpTo(m.sensors, m.sensors)
  <2>1. Len(m.sensors) \in Nat
    BY <1>1
  <2> QED BY <2>1 DEF SameUpTo
<1> QED BY <1>4, <1>6, <1>7, <1>8, <1>9 DEF d

\* A new sensor comes last, under the next identifier (Module.cc).
LEMMA AddSensorGrows ==
  ASSUME NEW m \in Modules, Numbered(m), NEW name \in Names, NEW t \in TypedDeclarations
  PROVE  LET d == add_sensor(m, name, t)
         IN  /\ d \in Modules /\ d.id = m.id /\ d.name = m.name /\ Numbered(d)
             /\ SameUpTo(m.inputs, d.inputs) /\ SameUpTo(m.sensors, d.sensors)
             /\ Len(d.inputs) = Len(m.inputs)
<1> DEFINE s == [id |-> m.next_sensor_id, name |-> name, data_type |-> Generic(t)]
           ss == Append(m.sensors, s)
           n == Len(m.sensors)
           next == m.next_sensor_id + 1
           d == add_sensor(m, name, t)
<1>1. /\ m = [id |-> m.id, name |-> m.name, inputs |-> m.inputs, sensors |-> m.sensors,
              next_input_id |-> m.next_input_id, next_sensor_id |-> m.next_sensor_id]
      /\ m.id \in Nat /\ m.name \in Names \cup {NoName}
      /\ m.inputs \in Seq(Inputs) /\ m.sensors \in Seq(Sensors) /\ n \in Nat
      /\ m.next_input_id \in Nat /\ m.next_sensor_id \in Nat
  BY DEF Modules
<1>2. s \in Sensors /\ s.id = m.next_sensor_id
  BY <1>1, GenericDeclares DEF Sensors
<1>3. d = [m EXCEPT !.sensors = ss, !.next_sensor_id = next]
  BY DEF add_sensor
<1> HIDE DEF s
<1>4. /\ ss \in Seq(Sensors) /\ Len(ss) = n + 1 /\ SameUpTo(m.sensors, ss)
      /\ \A k \in 1 .. n : ss[k] = m.sensors[k]
      /\ ss[n + 1] = s
  BY <1>1, <1>2, OneMore
<1> HIDE DEF ss, next, d
<1>5. d = [id |-> m.id, name |-> m.name, inputs |-> m.inputs, sensors |-> ss,
           next_input_id |-> m.next_input_id, next_sensor_id |-> next]
  BY <1>1, <1>3
<1>6. /\ d.id = m.id /\ d.name = m.name /\ d.inputs = m.inputs /\ d.sensors = ss
      /\ d.next_input_id = m.next_input_id /\ d.next_sensor_id = next
  BY <1>5
<1>7. d \in Modules
  <2>1. next \in Nat
    BY <1>1 DEF next
  <2> QED BY <1>1, <1>4, <1>5, <2>1 DEF Modules
<1>8. Numbered(d)
  <2>1. next = n + 1 /\ s.id = n
    BY <1>2 DEF Numbered, next
  <2>2. \A k \in 1 .. Len(ss) : ss[k].id = k - 1
    <3> TAKE k \in 1 .. Len(ss)
    <3>1. CASE k = n + 1
      BY <1>1, <1>4, <2>1, <3>1
    <3>2. CASE k # n + 1
      <4>1. k \in 1 .. n
        BY <1>1, <1>4, <3>2
      <4> QED BY <1>4, <4>1 DEF Numbered
    <3> QED BY <3>1, <3>2
  <2> QED BY <1>4, <1>6, <2>1, <2>2 DEF Numbered
<1>9. SameUpTo(m.inputs, m.inputs)
  <2>1. Len(m.inputs) \in Nat
    BY <1>1
  <2> QED BY <2>1 DEF SameUpTo
<1> QED BY <1>4, <1>6, <1>7, <1>8, <1>9 DEF d

-----------------------------------------------------------------------------
(* Controls. *)

\* A pair for a new input can be put in its place, and std::sort does so
\* (ModuleControl.cc).
LEMMA SortedIs ==
  ASSUME NEW ps \in Seq(Pairs), InOrder(ps), NEW x \in Pairs,
         \A k \in 1 .. Len(ps) : ps[k].input.input_id # x.input.input_id
  PROVE  LET s == Sorted(Append(ps, x))
         IN  /\ s \in Seq(Pairs) /\ Len(s) = Len(ps) + 1 /\ InOrder(s)
             /\ ToSet(s) = ToSet(ps) \cup {x}
<1> DEFINE n == Len(ps)
           all == Append(ps, x)
           v == x.input.input_id
           Id(k) == ps[k].input.input_id
<1>1. /\ n \in Nat /\ DOMAIN ps = 1 .. n /\ v \in Nat
      /\ \A k \in 1 .. n : ps[k] \in Pairs /\ Id(k) \in Nat
      /\ all \in Seq(Pairs) /\ Len(all) = n + 1 /\ DOMAIN all = 1 .. n + 1
      /\ \A k \in 1 .. n : all[k] = ps[k]
      /\ all[n + 1] = x
  <2>1. \A p \in Pairs : p.input.input_id \in Nat
    BY DEF Pairs, Inputs
  <2> HIDE DEF Pairs
  <2> QED BY <2>1
<1>2. \A j, k \in 1 .. n : j < k => Id(j) < Id(k)
  BY <1>1 DEF InOrder
<1>3. ToSet(all) = ToSet(ps) \cup {x}
  <2>1. ToSet(all) = {all[k] : k \in 1 .. n + 1} /\ ToSet(ps) = {ps[k] : k \in 1 .. n}
    BY <1>1 DEF ToSet
  <2> HIDE DEF all
  <2>2. \A k \in 1 .. n + 1 : all[k] \in {ps[j] : j \in 1 .. n} \cup {x}
    <3> TAKE k \in 1 .. n + 1
    <3>1. CASE k \in 1 .. n
      BY <1>1, <3>1
    <3>2. CASE k = n + 1
      BY <1>1, <3>2
    <3> QED BY <1>1, <3>1, <3>2
  <2>3. \A k \in 1 .. n : ps[k] \in {all[j] : j \in 1 .. n + 1}
    BY <1>1
  <2>4. x \in {all[j] : j \in 1 .. n + 1}
    BY <1>1
  <2> QED BY <2>1, <2>2, <2>3, <2>4
<1>4. PICK cut \in 0 .. n : (\A k \in 1 .. cut : Id(k) < v) /\ (\A k \in cut + 1 .. n : v < Id(k))
  <2> DEFINE T == {c \in 0 .. n : \A k \in c + 1 .. n : v < Id(k)}
  <2>1. n \in T
    BY <1>1
  <2>2. PICK c \in T : \A d \in T : ~(d < c)
    <3>1. T \in SUBSET Nat /\ T # {}
      BY <2>1
    <3> HIDE DEF T
    <3> QED BY <3>1, Sizes!LeastOf
  <2>3. c \in 0 .. n /\ \A k \in c + 1 .. n : v < Id(k)
    BY <2>2
  <2>4. CASE c = 0
    BY <2>3, <2>4
  <2>5. CASE c # 0
    <3>1. c - 1 \in 0 .. n /\ c - 1 \notin T /\ c \in 1 .. n
      <4>1. c - 1 \in 0 .. n /\ c - 1 < c /\ c \in 1 .. n
        BY <1>1, <2>3, <2>5
      <4> HIDE DEF T
      <4> QED BY <2>2, <4>1
    <3>2. PICK k \in (c - 1) + 1 .. n : ~(v < Id(k))
      BY <3>1
    <3>3. k = c
      BY <2>3, <3>1, <3>2
    <3>4. Id(c) < v
      BY <1>1, <3>1, <3>2, <3>3
    <3>5. \A j \in 1 .. c : Id(j) < v
      <4> TAKE j \in 1 .. c
      <4>1. j \in 1 .. n /\ (j = c \/ j < c)
        BY <2>3
      <4> HIDE DEF Id
      <4>2. Id(j) = Id(c) \/ Id(j) < Id(c)
        BY <1>2, <3>1, <4>1
      <4> QED BY <1>1, <3>1, <3>4, <4>1, <4>2
    <3> QED BY <2>3, <3>5
  <2> QED BY <2>4, <2>5
<1> DEFINE s == [k \in 1 .. n + 1 |-> IF k <= cut THEN ps[k] ELSE IF k = cut + 1 THEN x ELSE ps[k - 1]]
<1>5. /\ DOMAIN s = 1 .. n + 1
      /\ \A k \in 1 .. cut : s[k] = ps[k]
      /\ s[cut + 1] = x
      /\ \A k \in cut + 2 .. n + 1 : s[k] = ps[k - 1]
  BY <1>1, <1>4
<1>6. \A k \in 1 .. n + 1 : k \in 1 .. cut \/ k = cut + 1 \/ (k \in cut + 2 .. n + 1 /\ k - 1 \in cut + 1 .. n)
  BY <1>1, <1>4
<1>7. s = [k \in 1 .. n + 1 |-> s[k]]
  BY <1>5
<1> HIDE DEF s
<1>8. \A k \in 1 .. n + 1 : s[k] \in ToSet(all) /\ s[k] \in Pairs
  <2> TAKE k \in 1 .. n + 1
  <2>1. \A j \in 1 .. n : ps[j] \in ToSet(all)
    BY <1>1, <1>3 DEF ToSet
  <2>2. x \in ToSet(all)
    BY <1>3
  <2>3. CASE k \in 1 .. cut
    BY <1>1, <1>4, <1>5, <2>1, <2>3
  <2>4. CASE k = cut + 1
    BY <1>5, <2>2, <2>4
  <2>5. CASE k \in cut + 2 .. n + 1 /\ k - 1 \in cut + 1 .. n
    <3>1. k - 1 \in 1 .. n
      BY <1>1, <1>4, <2>5
    <3> QED BY <1>1, <1>5, <2>1, <2>5, <3>1
  <2> QED BY <1>6, <2>3, <2>4, <2>5
<1>9. s \in [DOMAIN all -> ToSet(all)]
  BY <1>1, <1>7, <1>8
<1>10. ToSet(s) = ToSet(all)
  <2>1. ToSet(s) = {s[k] : k \in 1 .. n + 1}
    BY <1>5 DEF ToSet
  <2>2. \A k \in 1 .. n : ps[k] \in {s[j] : j \in 1 .. n + 1}
    <3> TAKE k \in 1 .. n
    <3>1. CASE k <= cut
      <4>1. k \in 1 .. cut /\ k \in 1 .. n + 1
        BY <1>1, <1>4, <3>1
      <4>2. ps[k] = s[k]
        BY <1>5, <4>1
      <4> QED BY <4>1, <4>2
    <3>2. CASE ~(k <= cut)
      <4>1. k + 1 \in cut + 2 .. n + 1 /\ (k + 1) - 1 = k /\ k + 1 \in 1 .. n + 1
        BY <1>1, <1>4, <3>2
      <4>2. ps[k] = s[k + 1]
        BY <1>5, <4>1
      <4> QED BY <4>1, <4>2
    <3> QED BY <3>1, <3>2
  <2>3. x \in {s[j] : j \in 1 .. n + 1}
    <3>1. cut + 1 \in 1 .. n + 1
      BY <1>1, <1>4
    <3> QED BY <1>5, <3>1
  <2>4. ToSet(ps) = {ps[k] : k \in 1 .. n}
    BY <1>1 DEF ToSet
  <2>5. \A y \in ToSet(all) : y \in ToSet(s)
    BY <1>3, <2>1, <2>2, <2>3, <2>4
  <2>6. \A y \in ToSet(s) : y \in ToSet(all)
    BY <1>8, <2>1
  <2> QED BY <2>5, <2>6
<1>11. InOrder(s)
  <2> SUFFICES ASSUME NEW j \in 1 .. n + 1, NEW k \in 1 .. n + 1, j < k
               PROVE  s[j].input.input_id < s[k].input.input_id
    BY <1>5 DEF InOrder
  <2> DEFINE W(i) == s[i].input.input_id
  <2>1. /\ \A i \in 1 .. cut : i \in 1 .. n /\ W(i) = Id(i)
        /\ W(cut + 1) = v
        /\ \A i \in cut + 2 .. n + 1 : i - 1 \in 1 .. n /\ W(i) = Id(i - 1) /\ i - 1 \in cut + 1 .. n
    BY <1>1, <1>4, <1>5
  <2> HIDE DEF W, Id, v, n
  <2>2. W(j) < W(k)
    <3>1. CASE k \in 1 .. cut
      <4>1. j \in 1 .. cut
        BY <1>4, <3>1
      <4> QED BY <1>2, <2>1, <3>1, <4>1
    <3>2. CASE k = cut + 1
      <4>1. j \in 1 .. cut
        BY <1>4, <3>2
      <4> QED BY <1>4, <2>1, <3>2, <4>1
    <3>3. CASE k \in cut + 2 .. n + 1
      <4>1. CASE j \in 1 .. cut
        <5>1. W(j) < v /\ v < W(k) /\ W(j) \in Nat /\ W(k) \in Nat
          BY <1>1, <1>4, <2>1, <3>3, <4>1
        <5> QED BY <1>1, <5>1
      <4>2. CASE j = cut + 1
        BY <1>4, <2>1, <3>3, <4>2
      <4>3. CASE j \in cut + 2 .. n + 1
        <5>1. j - 1 < k - 1 /\ j - 1 \in 1 .. n /\ k - 1 \in 1 .. n
          BY <1>1, <1>4, <2>1, <3>3, <4>3
        <5> QED BY <1>2, <2>1, <3>3, <4>3, <5>1
      <4> QED BY <1>6, <4>1, <4>2, <4>3
    <3> QED BY <1>6, <3>1, <3>2, <3>3
  <2> QED BY <2>2 DEF W
<1> DEFINE r == Sorted(all)
<1>12. r \in [DOMAIN all -> ToSet(all)] /\ ToSet(r) = ToSet(all) /\ InOrder(r)
  <2> HIDE DEF all
  <2> QED BY <1>9, <1>10, <1>11 DEF Sorted
<1>13. r \in Seq(Pairs) /\ Len(r) = n + 1
  <2>1. ToSet(all) \subseteq Pairs
    BY <1>1 DEF ToSet
  <2>2. r \in [1 .. n + 1 -> Pairs]
    <3> HIDE DEF r, all
    <3> QED BY <1>1, <1>12, <2>1
  <2> HIDE DEF r, n
  <2> QED BY <1>1, <2>2
<1> QED BY <1>3, <1>12, <1>13

\* What a value for an input adds to what a control says.
Answered(c, a, input, v) ==
  IF is_clear(c) THEN [a EXCEPT !.cleared = @ \cup {input.input_id}]
  ELSE [a EXCEPT !.values = {p \in @ : p.input # input} \cup {[input |-> input, value |-> v]}]

\* An input of a module is at the position of its identifier.
LEMMA InputIsThere ==
  ASSUME NEW conf, Orderly(conf), NEW k \in 1 .. Len(conf.modules),
         NEW input \in ToSet(conf.modules[k].inputs)
  PROVE  /\ conf.modules[k] \in Modules /\ input \in Inputs
         /\ input.input_id \in 0 .. ClearBit /\ input.input_id # ClearBit
         /\ input.input_id + 1 \in 1 .. Len(conf.modules[k].inputs)
         /\ conf.modules[k].inputs[input.input_id + 1] = input
<1> DEFINE m == conf.modules[k]
           is == m.inputs
<1>1. m \in Modules /\ Numbered(m) /\ Len(m.inputs) <= MAX_INPUTS
  BY DEF Orderly, Configurations
<1>2. is \in Seq(Inputs) /\ Len(is) \in Nat /\ DOMAIN is = 1 .. Len(is)
  <2> HIDE DEF m
  <2>1. is \in Seq(Inputs)
    BY <1>1 DEF Modules
  <2> HIDE DEF is
  <2> QED BY <2>1
<1>3. PICK i \in 1 .. Len(is) : input = is[i]
  BY <1>2 DEF ToSet
<1>4. input.input_id = i - 1 /\ i - 1 + 1 = i
  BY <1>1, <1>3 DEF Numbered
<1>5. i <= MAX_INPUTS /\ ClearBit = MAX_INPUTS /\ ClearBit \in Nat
  BY <1>1, <1>2, ControlLinkAssumption DEF MAX_INPUTS, ClearBit
<1> HIDE DEF m
<1>6. is[i] \in Inputs
  BY <1>2
<1>7. i - 1 \in 0 .. ClearBit /\ i - 1 # ClearBit
  BY <1>5
<1> QED BY <1>1, <1>3, <1>4, <1>6, <1>7 DEF m

\* The facts about a control and what it says.
LEMMA ReflectsIs ==
  ASSUME NEW c, NEW a, NEW conf, Reflects(c, a, conf), Orderly(conf)
  PROVE  /\ c = [module_id |-> c.module_id, input_ids |-> c.input_ids, module |-> c.module,
                 values |-> c.values]
         /\ a = [module |-> a.module, values |-> a.values, cleared |-> a.cleared,
                 reset |-> a.reset]
         /\ c.module_id \in Nat /\ c.input_ids \in SUBSET (0 .. ClearBit) /\ c.module \in Nat
         /\ c.values \in Seq(Pairs) /\ Len(c.values) \in Nat /\ DOMAIN c.values = 1 .. Len(c.values)
         /\ \A k \in 1 .. Len(c.values) : c.values[k] \in Pairs
         /\ ToSet(c.values) = {c.values[k] : k \in 1 .. Len(c.values)}
         /\ \A p \in ToSet(c.values) :
              /\ p \in Pairs /\ p.input.input_id \in c.input_ids
              /\ p.input.input_id + 1 \in 1 .. Len(conf.modules[c.module].inputs)
              /\ conf.modules[c.module].inputs[p.input.input_id + 1] = p.input
         /\ a.module \in [id : Nat, name : Names \cup {NoName}]
         /\ a.values \in SUBSET Pairs /\ a.cleared \in SUBSET Nat /\ a.reset \in BOOLEAN
         /\ c.module \in 1 .. Len(conf.modules)
         /\ ClearBit \in c.input_ids => a.values = {} /\ a.cleared = c.input_ids \ {ClearBit}
         /\ ClearBit \notin c.input_ids =>
              /\ \A i \in c.input_ids : \E p \in ToSet(c.values) : i = p.input.input_id
              /\ a.values = ToSet(c.values) /\ a.cleared = {}
<1>1. c \in Controls /\ a \in Sayings /\ c.module \in 1 .. Len(conf.modules)
  BY DEF Reflects
<1>2. /\ c = [module_id |-> c.module_id, input_ids |-> c.input_ids, module |-> c.module,
              values |-> c.values]
      /\ c.module_id \in Nat /\ c.input_ids \in SUBSET (0 .. ClearBit) /\ c.module \in Nat
      /\ c.values \in Seq(Pairs)
  BY <1>1 DEF Controls
<1>3. /\ a = [module |-> a.module, values |-> a.values, cleared |-> a.cleared, reset |-> a.reset]
      /\ a.module \in [id : Nat, name : Names \cup {NoName}]
      /\ a.values \in SUBSET Pairs /\ a.cleared \in SUBSET Nat /\ a.reset \in BOOLEAN
  BY <1>1 DEF Sayings
<1>4. /\ Len(c.values) \in Nat /\ DOMAIN c.values = 1 .. Len(c.values)
      /\ \A k \in 1 .. Len(c.values) : c.values[k] \in Pairs
  <2> DEFINE s == c.values
  <2>1. s \in Seq(Pairs)
    BY <1>2
  <2> HIDE DEF s
  <2>2. Len(s) \in Nat /\ DOMAIN s = 1 .. Len(s) /\ \A k \in 1 .. Len(s) : s[k] \in Pairs
    BY <2>1
  <2> QED BY <2>2 DEF s
<1>5. ToSet(c.values) = {c.values[k] : k \in 1 .. Len(c.values)}
  BY <1>4 DEF ToSet
<1>6. PairsFit(c, conf.modules[c.module])
  BY DEF Reflects
<1>7. ASSUME NEW p \in ToSet(c.values)
      PROVE  /\ p \in Pairs /\ p.input.input_id \in c.input_ids
             /\ p.input.input_id + 1 \in 1 .. Len(conf.modules[c.module].inputs)
             /\ conf.modules[c.module].inputs[p.input.input_id + 1] = p.input
  <2>1. PICK k \in 1 .. Len(c.values) : p = c.values[k]
    BY <1>5
  <2> QED BY <1>4, <1>6, <2>1 DEF PairsFit
<1>8. SaysWhat(c, a)
  BY DEF Reflects
<1>9. ASSUME ClearBit \notin c.input_ids
      PROVE  /\ \A i \in c.input_ids : \E p \in ToSet(c.values) : i = p.input.input_id
             /\ a.values = ToSet(c.values) /\ a.cleared = {}
  <2>1. c.input_ids = {c.values[k].input.input_id : k \in DOMAIN c.values}
    BY <1>8, <1>9 DEF SaysWhat
  <2>2. \A i \in c.input_ids : \E k \in 1 .. Len(c.values) : i = c.values[k].input.input_id
    BY <1>4, <2>1
  <2> QED BY <1>5, <1>8, <1>9, <2>2 DEF SaysWhat
<1>10. ClearBit \in c.input_ids => a.values = {} /\ a.cleared = c.input_ids \ {ClearBit}
  BY <1>8 DEF SaysWhat
<1> QED BY <1>1, <1>2, <1>3, <1>4, <1>5, <1>7, <1>9, <1>10

\* A control says what its parts say, for the pairs as a set.
LEMMA ReflectsBySet ==
  ASSUME NEW conf, NEW c \in Controls, NEW a \in Sayings,
         c.module \in 1 .. Len(conf.modules),
         a.module = [id |-> c.module - 1, name |-> conf.modules[c.module].name],
         c.module_id = (IF a.reset THEN 0 ELSE c.module - 1),
         InOrder(c.values),
         \A p \in ToSet(c.values) :
           /\ p.input.input_id \in c.input_ids
           /\ p.input.input_id + 1 \in 1 .. Len(conf.modules[c.module].inputs)
           /\ conf.modules[c.module].inputs[p.input.input_id + 1] = p.input,
         ClearBit \in c.input_ids => a.values = {} /\ a.cleared = c.input_ids \ {ClearBit},
         ClearBit \notin c.input_ids =>
           /\ \A i \in c.input_ids : \E p \in ToSet(c.values) : i = p.input.input_id
           /\ a.values = ToSet(c.values) /\ a.cleared = {}
  PROVE  Reflects(c, a, conf)
<1>1. /\ Len(c.values) \in Nat /\ DOMAIN c.values = 1 .. Len(c.values)
      /\ ToSet(c.values) = {c.values[k] : k \in 1 .. Len(c.values)}
  <2> DEFINE s == c.values
  <2>1. s \in Seq(Pairs)
    BY DEF Controls
  <2> HIDE DEF s
  <2>2. Len(s) \in Nat /\ DOMAIN s = 1 .. Len(s)
    BY <2>1
  <2> QED BY <2>2 DEF s, ToSet
<1>2. PairsFit(c, conf.modules[c.module])
  BY <1>1 DEF PairsFit
<1>3. SaysWhat(c, a)
  <2>1. CASE ClearBit \in c.input_ids
    BY <2>1 DEF SaysWhat
  <2>2. CASE ClearBit \notin c.input_ids
    <3>1. \A i \in c.input_ids : \E k \in 1 .. Len(c.values) : i = c.values[k].input.input_id
      BY <1>1, <2>2
    <3>2. \A k \in 1 .. Len(c.values) : c.values[k].input.input_id \in c.input_ids
      BY <1>1
    <3>3. c.input_ids = {c.values[k].input.input_id : k \in DOMAIN c.values}
      <4> DEFINE n == Len(c.values)
                 Id(k) == c.values[k].input.input_id
                 ids == {Id(k) : k \in 1 .. n}
      <4>1. (\A i \in c.input_ids : \E k \in 1 .. n : i = Id(k)) /\ \A k \in 1 .. n : Id(k) \in c.input_ids
        BY <3>1, <3>2
      <4> HIDE DEF Id, n
      <4>2. c.input_ids = ids
        BY <4>1
      <4> QED BY <1>1, <4>2 DEF Id, n
    <3> QED BY <2>2, <3>3 DEF SaysWhat
  <2> QED BY <2>1, <2>2
<1> QED BY <1>2, <1>3 DEF Reflects

\* The pairs of such a control are for inputs of its module.
LEMMA PairReflects ==
  ASSUME NEW c, NEW a, NEW conf, Reflects(c, a, conf), Orderly(conf), NEW p \in ToSet(c.values)
  PROVE  /\ p \in Pairs /\ p.input.input_id \in c.input_ids
         /\ p.input.input_id + 1 \in 1 .. Len(conf.modules[c.module].inputs)
         /\ conf.modules[c.module].inputs[p.input.input_id + 1] = p.input
BY ReflectsIs

\* A value for an input that was not set (ModuleControl::value_for).
LEMMA AddPairReflects ==
  ASSUME NEW c, NEW a, NEW conf, Orderly(conf), Reflects(c, a, conf),
         NEW input \in ToSet(conf.modules[c.module].inputs), input.input_id \notin c.input_ids
  PROVE  /\ Reflects(AddPair(c, input), Answered(c, a, input, Zero), conf)
         /\ ClearBit \in AddPair(c, input).input_ids <=> ClearBit \in c.input_ids
<1> DEFINE m == conf.modules[c.module]
           id == input.input_id
           pair == [input |-> input, value |-> Zero]
           s == Sorted(Append(c.values, pair))
           ids == c.input_ids \cup {id}
           d == AddPair(c, input)
           b == Answered(c, a, input, Zero)
<1>1. /\ c = [module_id |-> c.module_id, input_ids |-> c.input_ids, module |-> c.module,
              values |-> c.values]
      /\ a = [module |-> a.module, values |-> a.values, cleared |-> a.cleared, reset |-> a.reset]
      /\ c.module_id \in Nat /\ c.input_ids \in SUBSET (0 .. ClearBit) /\ c.module \in Nat
      /\ c.values \in Seq(Pairs)
      /\ a.module \in [id : Nat, name : Names \cup {NoName}]
      /\ a.values \in SUBSET Pairs /\ a.cleared \in SUBSET Nat /\ a.reset \in BOOLEAN
      /\ c.module \in 1 .. Len(conf.modules)
  BY ReflectsIs
<1>2. /\ \A p \in ToSet(c.values) :
           /\ p \in Pairs /\ p.input.input_id \in c.input_ids
           /\ p.input.input_id + 1 \in 1 .. Len(m.inputs)
           /\ m.inputs[p.input.input_id + 1] = p.input
      /\ ToSet(c.values) = {c.values[k] : k \in 1 .. Len(c.values)}
  <2>1. ToSet(c.values) = {c.values[k] : k \in 1 .. Len(c.values)}
    BY ReflectsIs
  <2> QED BY <2>1, PairReflects
<1>3. /\ ClearBit \in c.input_ids => a.values = {} /\ a.cleared = c.input_ids \ {ClearBit}
      /\ ClearBit \notin c.input_ids =>
           /\ \A i \in c.input_ids : \E p \in ToSet(c.values) : i = p.input.input_id
           /\ a.values = ToSet(c.values) /\ a.cleared = {}
  BY ReflectsIs
<1>4. /\ a.module = [id |-> c.module - 1, name |-> m.name]
      /\ c.module_id = (IF a.reset THEN 0 ELSE c.module - 1) /\ InOrder(c.values)
  BY DEF Reflects
<1>5. /\ input \in Inputs /\ id \in 0 .. ClearBit /\ id # ClearBit /\ id \in Nat
      /\ id + 1 \in 1 .. Len(m.inputs) /\ m.inputs[id + 1] = input
  <2>1. /\ input \in Inputs /\ id \in 0 .. ClearBit /\ id # ClearBit
        /\ id + 1 \in 1 .. Len(m.inputs) /\ m.inputs[id + 1] = input
    BY <1>1, InputIsThere
  <2> QED BY <2>1 DEF Inputs
<1>6. pair \in Pairs /\ pair.input = input /\ pair.input.input_id = id
  BY <1>5, ControlLinkAssumption DEF Pairs
<1> HIDE DEF pair, m
<1>7. s \in Seq(Pairs) /\ InOrder(s) /\ ToSet(s) = ToSet(c.values) \cup {pair}
  <2>1. \A k \in 1 .. Len(c.values) : c.values[k].input.input_id # pair.input.input_id
    BY <1>2, <1>6
  <2> QED BY <1>1, <1>4, <1>6, <2>1, SortedIs
<1>8. d = [module_id |-> c.module_id, input_ids |-> ids, module |-> c.module, values |-> s]
  <2>1. d = [c EXCEPT !.input_ids = ids, !.values = s]
    BY DEF AddPair, pair
  <2> HIDE DEF ids, s, d
  <2> QED BY <1>1, <2>1
<1> HIDE DEF s, d
<1>9. /\ d.module_id = c.module_id /\ d.input_ids = ids /\ d.module = c.module /\ d.values = s
      /\ d \in Controls
  BY <1>1, <1>5, <1>7, <1>8 DEF Controls
<1>10. \A p \in ToSet(s) : /\ p.input.input_id \in ids
                           /\ p.input.input_id + 1 \in 1 .. Len(m.inputs)
                           /\ m.inputs[p.input.input_id + 1] = p.input
  BY <1>2, <1>5, <1>6, <1>7 DEF m
<1>11. ASSUME ClearBit \in c.input_ids PROVE Reflects(d, b, conf)
  <2> DEFINE cleared == a.cleared \cup {id}
  <2>1. b = [a EXCEPT !.cleared = cleared]
    BY <1>11 DEF Answered, is_clear
  <2> HIDE DEF cleared, b
  <2>2. b = [module |-> a.module, values |-> a.values, cleared |-> cleared, reset |-> a.reset]
    BY <1>1, <2>1
  <2>3. /\ b.module = a.module /\ b.values = a.values /\ b.cleared = cleared
        /\ b.reset = a.reset /\ b \in Sayings
    BY <1>1, <1>5, <2>2 DEF Sayings, cleared
  <2>4. b.values = {} /\ b.cleared = ids \ {ClearBit} /\ ClearBit \in ids
    BY <1>3, <1>5, <1>11, <2>3 DEF cleared
  <2> HIDE DEF ids
  <2> QED BY <1>1, <1>4, <1>7, <1>9, <1>10, <2>3, <2>4, ReflectsBySet DEF m
<1>12. ASSUME ClearBit \notin c.input_ids PROVE Reflects(d, b, conf)
  <2> DEFINE values == {p \in a.values : p.input # input} \cup {pair}
  <2>1. b = [a EXCEPT !.values = values]
    BY <1>12 DEF Answered, is_clear, pair
  <2> HIDE DEF values, b
  <2>2. b = [module |-> a.module, values |-> values, cleared |-> a.cleared, reset |-> a.reset]
    BY <1>1, <2>1
  <2>3. /\ b.module = a.module /\ b.values = values /\ b.cleared = a.cleared
        /\ b.reset = a.reset /\ b \in Sayings
    BY <1>1, <1>6, <2>2 DEF Sayings, values
  <2>4. values = ToSet(s)
    BY <1>2, <1>3, <1>7, <1>12 DEF values
  <2>5. \A i \in ids : \E p \in ToSet(s) : i = p.input.input_id
    BY <1>3, <1>6, <1>7, <1>12
  <2>6. ClearBit \notin ids
    BY <1>5, <1>12
  <2> HIDE DEF ids
  <2>7. b.values = ToSet(d.values) /\ b.cleared = {}
    BY <1>3, <1>9, <1>12, <2>3, <2>4
  <2>8. (\A i \in d.input_ids : \E p \in ToSet(d.values) : i = p.input.input_id)
        /\ ClearBit \notin d.input_ids
    BY <1>9, <2>5, <2>6
  <2> QED BY <1>1, <1>4, <1>7, <1>9, <1>10, <2>3, <2>7, <2>8, ReflectsBySet DEF m
<1>13. Reflects(d, b, conf)
  BY <1>11, <1>12
<1>14. ClearBit \in d.input_ids <=> ClearBit \in c.input_ids
  BY <1>5, <1>9
<1> QED BY <1>13, <1>14 DEF d

\* A value for an input that was set (ModuleControl::set).
LEMMA PutReflects ==
  ASSUME NEW c, NEW a, NEW conf, Orderly(conf), Reflects(c, a, conf), NEW v \in Values,
         NEW input \in ToSet(conf.modules[c.module].inputs), input.input_id \in c.input_ids
  PROVE  Reflects([c EXCEPT !.values = [k \in DOMAIN @ |->
                     IF @[k].input.input_id = input.input_id THEN [@[k] EXCEPT !.value = v]
                     ELSE @[k]]],
                  Answered(c, a, input, v), conf)
<1> DEFINE m == conf.modules[c.module]
           id == input.input_id
           pair == [input |-> input, value |-> v]
           n == Len(c.values)
           s == [k \in DOMAIN c.values |->
                   IF c.values[k].input.input_id = id THEN [c.values[k] EXCEPT !.value = v]
                   ELSE c.values[k]]
           d == [c EXCEPT !.values = s]
           b == Answered(c, a, input, v)
<1>1. /\ c = [module_id |-> c.module_id, input_ids |-> c.input_ids, module |-> c.module,
              values |-> c.values]
      /\ a = [module |-> a.module, values |-> a.values, cleared |-> a.cleared, reset |-> a.reset]
      /\ c.module_id \in Nat /\ c.input_ids \in SUBSET (0 .. ClearBit) /\ c.module \in Nat
      /\ a.module \in [id : Nat, name : Names \cup {NoName}]
      /\ a.values \in SUBSET Pairs /\ a.cleared \in SUBSET Nat /\ a.reset \in BOOLEAN
      /\ c.module \in 1 .. Len(conf.modules)
      /\ n \in Nat /\ DOMAIN c.values = 1 .. n
  BY ReflectsIs
<1>2. /\ \A p \in ToSet(c.values) :
           /\ p \in Pairs /\ p.input.input_id \in c.input_ids
           /\ p.input.input_id + 1 \in 1 .. Len(m.inputs)
           /\ m.inputs[p.input.input_id + 1] = p.input
      /\ ToSet(c.values) = {c.values[k] : k \in 1 .. n}
  <2>1. ToSet(c.values) = {c.values[k] : k \in 1 .. Len(c.values)}
    BY ReflectsIs
  <2> QED BY <2>1, PairReflects
<1>3. /\ ClearBit \in c.input_ids => a.values = {} /\ a.cleared = c.input_ids \ {ClearBit}
      /\ ClearBit \notin c.input_ids =>
           /\ \A i \in c.input_ids : \E p \in ToSet(c.values) : i = p.input.input_id
           /\ a.values = ToSet(c.values) /\ a.cleared = {}
  BY ReflectsIs
<1>4. /\ a.module = [id |-> c.module - 1, name |-> m.name]
      /\ c.module_id = (IF a.reset THEN 0 ELSE c.module - 1) /\ InOrder(c.values)
  BY DEF Reflects
<1>5. /\ input \in Inputs /\ id \in 0 .. ClearBit /\ id # ClearBit /\ id \in Nat
      /\ id + 1 \in 1 .. Len(m.inputs) /\ m.inputs[id + 1] = input
  <2>1. /\ input \in Inputs /\ id \in 0 .. ClearBit /\ id # ClearBit
        /\ id + 1 \in 1 .. Len(m.inputs) /\ m.inputs[id + 1] = input
    BY <1>1, InputIsThere
  <2> QED BY <2>1 DEF Inputs
<1>6. pair \in Pairs /\ pair.input = input /\ pair.input.input_id = id
  BY <1>5 DEF Pairs
\* Pairs with the same identifier are for the same input.
<1>7. \A p \in ToSet(c.values) : p.input.input_id = id <=> p.input = input
  BY <1>2, <1>5
<1>8. \A p \in Pairs : p.input = input => [p EXCEPT !.value = v] = pair
  BY DEF Pairs
<1> HIDE DEF pair, m, n
<1>9. \A k \in 1 .. n : /\ c.values[k] \in ToSet(c.values) /\ c.values[k] \in Pairs
                        /\ s[k] = IF c.values[k].input = input THEN pair ELSE c.values[k]
  <2> TAKE k \in 1 .. n
  <2>1. c.values[k] \in ToSet(c.values) /\ c.values[k] \in Pairs
    BY <1>2
  <2>2. s[k] = IF c.values[k].input.input_id = id THEN [c.values[k] EXCEPT !.value = v] ELSE c.values[k]
    BY <1>1
  <2> HIDE DEF s
  <2> QED BY <1>7, <1>8, <2>1, <2>2
<1>10. DOMAIN s = 1 .. n /\ s = [k \in 1 .. n |-> s[k]]
  BY <1>1
<1> HIDE DEF s
<1>11. s \in Seq(Pairs) /\ Len(s) = n /\ ToSet(s) = {s[k] : k \in 1 .. n}
  <2>1. s \in [1 .. n -> Pairs]
    BY <1>6, <1>9, <1>10
  <2> QED BY <1>1, <1>10, <2>1 DEF ToSet
<1>12. \A k \in 1 .. n : s[k].input = c.values[k].input
  BY <1>6, <1>9
<1>13. InOrder(s)
  BY <1>1, <1>4, <1>10, <1>12 DEF InOrder
<1>14. d = [module_id |-> c.module_id, input_ids |-> c.input_ids, module |-> c.module, values |-> s]
  BY <1>1
<1> HIDE DEF d
<1>15. /\ d.module_id = c.module_id /\ d.input_ids = c.input_ids /\ d.module = c.module
       /\ d.values = s /\ d \in Controls
  BY <1>1, <1>11, <1>14 DEF Controls
<1>16. \A p \in ToSet(s) : /\ p.input.input_id \in c.input_ids
                           /\ p.input.input_id + 1 \in 1 .. Len(m.inputs)
                           /\ m.inputs[p.input.input_id + 1] = p.input
  <2> TAKE p \in ToSet(s)
  <2>1. PICK k \in 1 .. n : p = s[k]
    BY <1>11
  <2>2. p.input = c.values[k].input /\ c.values[k] \in ToSet(c.values)
    BY <1>9, <1>12, <2>1
  <2> QED BY <1>2, <2>2 DEF m
<1>17. ASSUME ClearBit \in c.input_ids PROVE Reflects(d, b, conf)
  <2> DEFINE cleared == a.cleared \cup {id}
  <2>1. b = [a EXCEPT !.cleared = cleared]
    BY <1>17 DEF Answered, is_clear
  <2> HIDE DEF cleared, b
  <2>2. b = [module |-> a.module, values |-> a.values, cleared |-> cleared, reset |-> a.reset]
    BY <1>1, <2>1
  <2>3. /\ b.module = a.module /\ b.values = a.values /\ b.cleared = cleared
        /\ b.reset = a.reset /\ b \in Sayings
    BY <1>1, <1>5, <2>2 DEF Sayings, cleared
  <2>4. b.values = {} /\ b.cleared = c.input_ids \ {ClearBit}
    BY <1>3, <1>5, <1>17, <2>3 DEF cleared
  <2> QED BY <1>1, <1>4, <1>13, <1>15, <1>16, <1>17, <2>3, <2>4, ReflectsBySet DEF m
<1>18. ASSUME ClearBit \notin c.input_ids PROVE Reflects(d, b, conf)
  <2> DEFINE values == {p \in a.values : p.input # input} \cup {pair}
  <2>1. b = [a EXCEPT !.values = values]
    BY <1>18 DEF Answered, is_clear, pair
  <2> HIDE DEF values, b
  <2>2. b = [module |-> a.module, values |-> values, cleared |-> a.cleared, reset |-> a.reset]
    BY <1>1, <2>1
  <2>3. /\ b.module = a.module /\ b.values = values /\ b.cleared = a.cleared
        /\ b.reset = a.reset /\ b \in Sayings
    BY <1>1, <1>6, <2>2 DEF Sayings, values
  <2>4. PICK q \in ToSet(c.values) : q.input = input
    BY <1>3, <1>7, <1>18
  <2>5. \A p \in ToSet(s) : p \in values
    <3> TAKE p \in ToSet(s)
    <3>1. PICK k \in 1 .. n : p = s[k]
      BY <1>11
    <3> QED BY <1>3, <1>9, <1>18, <3>1 DEF values
  <2>6. \A p \in values : p \in ToSet(s)
    <3> TAKE p \in values
    <3>1. CASE p = pair
      <4>1. PICK k \in 1 .. n : q = c.values[k]
        BY <1>2
      <4>2. s[k] = pair
        BY <1>9, <2>4, <4>1
      <4> QED BY <1>11, <3>1, <4>2
    <3>2. CASE p # pair
      <4>1. p \in ToSet(c.values) /\ p.input # input
        BY <1>3, <1>18, <3>2 DEF values
      <4>2. PICK k \in 1 .. n : p = c.values[k]
        BY <1>2, <4>1
      <4>3. s[k] = p
        BY <1>9, <4>1, <4>2
      <4> QED BY <1>11, <4>3
    <3> QED BY <3>1, <3>2
  <2>7. values = ToSet(s)
    BY <2>5, <2>6
  <2>8. \A i \in c.input_ids : \E p \in ToSet(s) : i = p.input.input_id
    <3> TAKE i \in c.input_ids
    <3>1. PICK p \in ToSet(c.values) : i = p.input.input_id
      BY <1>3, <1>18
    <3>2. PICK k \in 1 .. n : p = c.values[k]
      BY <1>2
    <3>3. s[k].input = p.input /\ s[k] \in ToSet(s)
      BY <1>11, <1>12, <3>2
    <3> QED BY <3>1, <3>3
  <2>9. /\ d.module \in 1 .. Len(conf.modules) /\ d \in Controls /\ b \in Sayings
        /\ b.module = [id |-> d.module - 1, name |-> conf.modules[d.module].name]
        /\ d.module_id = (IF b.reset THEN 0 ELSE d.module - 1)
    BY <1>1, <1>4, <1>15, <2>3 DEF m
  <2>10. /\ InOrder(d.values) /\ ClearBit \notin d.input_ids
         /\ \A p \in ToSet(d.values) :
              /\ p.input.input_id \in d.input_ids
              /\ p.input.input_id + 1 \in 1 .. Len(conf.modules[d.module].inputs)
              /\ conf.modules[d.module].inputs[p.input.input_id + 1] = p.input
    BY <1>13, <1>15, <1>16, <1>18 DEF m
  <2>11. /\ \A i \in d.input_ids : \E p \in ToSet(d.values) : i = p.input.input_id
         /\ b.values = ToSet(d.values) /\ b.cleared = {}
    BY <1>3, <1>15, <1>18, <2>3, <2>7, <2>8
  <2> QED BY <2>9, <2>10, <2>11, ReflectsBySet
<1>19. Reflects(d, b, conf)
  BY <1>17, <1>18
<1> QED BY <1>19 DEF d, s

\* Asking for a value of an input, set before or not (ModuleControl::set).
LEMMA SetReflects ==
  ASSUME NEW c, NEW a, NEW conf, Orderly(conf), Reflects(c, a, conf), NEW v \in Values,
         NEW input \in ToSet(conf.modules[c.module].inputs)
  PROVE  /\ Reflects(set(c, input, v), Answered(c, a, input, v), conf)
         /\ ClearBit \in set(c, input, v).input_ids <=> ClearBit \in c.input_ids
<1> DEFINE id == input.input_id
           Put(d) == [d EXCEPT !.values = [k \in DOMAIN @ |->
                        IF @[k].input.input_id = id THEN [@[k] EXCEPT !.value = v] ELSE @[k]]]
<1>1. set(c, input, v) = Put(value_for(c, input))
  BY DEF set
<1>2. CASE id \in c.input_ids
  <2>1. value_for(c, input) = c
    BY <1>2 DEF value_for
  <2>2. Reflects(Put(c), Answered(c, a, input, v), conf)
    BY <1>2, PutReflects
  <2>3. Put(c).input_ids = c.input_ids
    BY ReflectsIs
  <2> HIDE DEF Put
  <2> QED BY <1>1, <2>1, <2>2, <2>3
<1>3. CASE id \notin c.input_ids
  <2> DEFINE d == AddPair(c, input)
             b == Answered(c, a, input, Zero)
             values == {p \in a.values : p.input # input} \cup {[input |-> input, value |-> Zero]}
  <2>1. value_for(c, input) = d
    BY <1>3 DEF value_for
  <2>2. Reflects(d, b, conf)
    BY <1>3, AddPairReflects
  <2>3. /\ c = [module_id |-> c.module_id, input_ids |-> c.input_ids, module |-> c.module,
                values |-> c.values]
        /\ a = [module |-> a.module, values |-> a.values, cleared |-> a.cleared,
                reset |-> a.reset]
        /\ c.module \in 1 .. Len(conf.modules)
    BY ReflectsIs
  <2>4. d.module = c.module /\ d.input_ids = c.input_ids \cup {id}
    <3> DEFINE ids == c.input_ids \cup {id}
               s == Sorted(Append(c.values, [input |-> input, value |-> Zero]))
    <3>1. d = [c EXCEPT !.input_ids = ids, !.values = s]
      BY DEF AddPair
    <3> HIDE DEF ids, s, d
    <3>2. d = [module_id |-> c.module_id, input_ids |-> ids, module |-> c.module, values |-> s]
      BY <2>3, <3>1
    <3> QED BY <3>2 DEF ids
  <2>5. id # ClearBit
    BY <2>3, InputIsThere
  <2>6. is_clear(d) <=> is_clear(c)
    BY <2>4, <2>5 DEF is_clear
  <2>7. Answered(d, b, input, v) = Answered(c, a, input, v)
    <3>1. CASE is_clear(c)
      <4> DEFINE once == a.cleared \cup {id}
                 twice == once \cup {id}
      <4>1. b = [a EXCEPT !.cleared = once]
        BY <3>1 DEF Answered
      <4>2. once = twice
        OBVIOUS
      <4> HIDE DEF once, b, d
      <4>3. b.cleared = once
        BY <2>3, <4>1
      <4>4. Answered(d, b, input, v) = [b EXCEPT !.cleared = twice]
        BY <2>6, <3>1, <4>3 DEF Answered
      <4>5. [b EXCEPT !.cleared = once] = b
        BY <2>3, <4>1
      <4>6. Answered(c, a, input, v) = b
        BY <3>1, <4>1 DEF Answered, once
      <4> QED BY <4>2, <4>4, <4>5, <4>6
    <3>2. CASE ~is_clear(c)
      <4> DEFINE new == [input |-> input, value |-> v]
                 first == {p \in a.values : p.input # input} \cup {new}
                 second == {p \in values : p.input # input} \cup {new}
      <4>1. b = [a EXCEPT !.values = values]
        BY <3>2 DEF Answered
      <4>2. first = second
        <5>1. \A p \in values : p.input # input => p \in a.values
          OBVIOUS
        <5>2. \A p \in a.values : p.input # input => p \in values
          OBVIOUS
        <5> HIDE DEF values, new
        <5> QED BY <5>1, <5>2
      <4> HIDE DEF first, second, values, b, d, new
      <4>3. b.values = values
        BY <2>3, <4>1
      <4>4. Answered(d, b, input, v) = [b EXCEPT !.values = second]
        BY <2>6, <3>2, <4>3 DEF Answered, second, new
      <4>5. [b EXCEPT !.values = second] = [a EXCEPT !.values = second]
        BY <2>3, <4>1
      <4>6. Answered(c, a, input, v) = [a EXCEPT !.values = first]
        BY <3>2 DEF Answered, first, new
      <4> QED BY <4>2, <4>4, <4>5, <4>6
    <3> QED BY <3>1, <3>2
  <2> HIDE DEF d, b
  <2>8. Reflects(Put(d), Answered(d, b, input, v), conf)
    <3>1. input \in ToSet(conf.modules[d.module].inputs) /\ input.input_id \in d.input_ids
      BY <2>4
    <3> QED BY <2>2, <3>1, PutReflects
  <2>9. Put(d).input_ids = d.input_ids
    BY <2>2, ReflectsIs
  <2>10. ClearBit \in d.input_ids <=> ClearBit \in c.input_ids
    BY <2>4, <2>5
  <2> HIDE DEF Put
  <2> QED BY <1>1, <2>1, <2>7, <2>8, <2>9, <2>10
<1> QED BY <1>2, <1>3

\* Inputs are cleared before any value is set (ModuleControl::clear).
LEMMA ClearReflects ==
  ASSUME NEW c, NEW a, NEW conf, Orderly(conf), Reflects(c, a, conf), get_num_values(c) = 0,
         NEW ids \in SUBSET (0 .. ClearBit), ClearBit \notin ids
  PROVE  /\ Reflects([c EXCEPT !.input_ids = @ \cup {ClearBit} \cup ids],
                     [a EXCEPT !.cleared = @ \cup ids], conf)
         /\ a.values = {} /\ (ClearBit \notin c.input_ids => a.cleared = {})
<1> DEFINE all == c.input_ids \cup {ClearBit} \cup ids
           cleared == a.cleared \cup ids
           d == [c EXCEPT !.input_ids = all]
           b == [a EXCEPT !.cleared = cleared]
<1>1. /\ c = [module_id |-> c.module_id, input_ids |-> c.input_ids, module |-> c.module,
              values |-> c.values]
      /\ a = [module |-> a.module, values |-> a.values, cleared |-> a.cleared, reset |-> a.reset]
      /\ c.module_id \in Nat /\ c.input_ids \in SUBSET (0 .. ClearBit) /\ c.module \in Nat
      /\ c.values \in Seq(Pairs)
      /\ a.module \in [id : Nat, name : Names \cup {NoName}]
      /\ a.values \in SUBSET Pairs /\ a.cleared \in SUBSET Nat /\ a.reset \in BOOLEAN
      /\ c.module \in 1 .. Len(conf.modules)
  BY ReflectsIs
<1>2. \A p \in ToSet(c.values) :
        /\ p.input.input_id \in c.input_ids
        /\ p.input.input_id + 1 \in 1 .. Len(conf.modules[c.module].inputs)
        /\ conf.modules[c.module].inputs[p.input.input_id + 1] = p.input
  BY PairReflects
<1>3. /\ ClearBit \in c.input_ids => a.values = {} /\ a.cleared = c.input_ids \ {ClearBit}
      /\ ClearBit \notin c.input_ids =>
           /\ \A i \in c.input_ids : \E p \in ToSet(c.values) : i = p.input.input_id
           /\ a.values = ToSet(c.values) /\ a.cleared = {}
  BY ReflectsIs
<1>4. /\ a.module = [id |-> c.module - 1, name |-> conf.modules[c.module].name]
      /\ c.module_id = (IF a.reset THEN 0 ELSE c.module - 1) /\ InOrder(c.values)
  BY DEF Reflects
<1>5. ClearBit \in Nat
  BY ControlLinkAssumption DEF ClearBit
<1>6. a.values = {} /\ cleared = all \ {ClearBit}
  <2>1. CASE ClearBit \in c.input_ids
    BY <1>3, <2>1
  <2>2. CASE ClearBit \notin c.input_ids
    <3>1. IsFiniteSet(c.input_ids)
      <4>1. IsFiniteSet(0 .. ClearBit)
        BY <1>5, FS_Interval
      <4> QED BY <1>1, <4>1, FS_Subset
    <3>2. Cardinality(c.input_ids) = 0
      BY <2>2 DEF get_num_values, is_clear
    <3>3. c.input_ids = {}
      BY <3>1, <3>2, FS_EmptySet
    <3>4. ToSet(c.values) = {}
      BY <1>2, <3>3
    <3> QED BY <1>3, <2>2, <3>3, <3>4
  <2> QED BY <2>1, <2>2
<1>7. all \in SUBSET (0 .. ClearBit) /\ c.input_ids \subseteq all /\ ClearBit \in all
  BY <1>1, <1>5
<1>8. cleared \in SUBSET Nat
  BY <1>1, <1>5
<1> HIDE DEF all, cleared
<1>9. /\ d = [module_id |-> c.module_id, input_ids |-> all, module |-> c.module,
              values |-> c.values]
      /\ b = [module |-> a.module, values |-> a.values, cleared |-> cleared, reset |-> a.reset]
  BY <1>1
<1> HIDE DEF d, b
<1>10. /\ d.module_id = c.module_id /\ d.input_ids = all /\ d.module = c.module
       /\ d.values = c.values /\ d \in Controls
       /\ b.module = a.module /\ b.values = {} /\ b.cleared = all \ {ClearBit}
       /\ b.reset = a.reset /\ b \in Sayings
  BY <1>1, <1>6, <1>7, <1>8, <1>9 DEF Controls, Sayings
<1>11. \A p \in ToSet(d.values) :
         /\ p.input.input_id \in d.input_ids
         /\ p.input.input_id + 1 \in 1 .. Len(conf.modules[c.module].inputs)
         /\ conf.modules[c.module].inputs[p.input.input_id + 1] = p.input
  BY <1>2, <1>7, <1>10
<1>12. Reflects(d, b, conf)
  BY <1>1, <1>4, <1>7, <1>10, <1>11, ReflectsBySet
<1> QED BY <1>3, <1>6, <1>12 DEF d, b, all, cleared

\* The value for a bit of the mask is at the number of bits up to it.
LEMMA RankIs ==
  ASSUME NEW c, NEW a, NEW conf, Orderly(conf), Reflects(c, a, conf), ClearBit \notin c.input_ids
  PROVE  /\ Cardinality(c.input_ids) = Len(c.values)
         /\ \A k \in 1 .. Len(c.values) :
              Cardinality({j \in c.input_ids : j <= c.values[k].input.input_id}) = k
<1> DEFINE n == Len(c.values)
           Id(k) == c.values[k].input.input_id
           First(k) == {Id(j) : j \in 1 .. k}
<1>1. /\ n \in Nat /\ DOMAIN c.values = 1 .. n
      /\ \A k \in 1 .. n : Id(k) \in Nat
      /\ \A j, k \in 1 .. n : j < k => Id(j) < Id(k)
      /\ c.input_ids = First(n)
  <2>1. n \in Nat /\ DOMAIN c.values = 1 .. n /\ \A k \in 1 .. n : c.values[k] \in Pairs
    BY ReflectsIs
  <2>2. InOrder(c.values) /\ SaysWhat(c, a)
    BY DEF Reflects
  <2>3. \A p \in Pairs : p.input.input_id \in Nat
    BY DEF Pairs, Inputs
  <2>4. c.input_ids = {c.values[k].input.input_id : k \in DOMAIN c.values}
    BY <2>2 DEF SaysWhat
  <2>5. \A j, k \in 1 .. n : j < k => Id(j) < Id(k)
    BY <2>1, <2>2 DEF InOrder
  <2> QED BY <2>1, <2>3, <2>4, <2>5
<1> HIDE DEF n, Id
<1> DEFINE T == {k \in Nat : k \in 0 .. n => IsFiniteSet(First(k)) /\ Cardinality(First(k)) = k}
<1>2. 0 \in T
  <2>1. First(0) = {}
    OBVIOUS
  <2> HIDE DEF First
  <2> QED BY <2>1, FS_EmptySet
<1>3. ASSUME NEW k \in 0 .. n - 1, k \in T PROVE k + 1 \in T
  <2>1. k \in Nat /\ k \in 0 .. n /\ k + 1 \in 1 .. n
    BY <1>1
  <2>2. IsFiniteSet(First(k)) /\ Cardinality(First(k)) = k
    BY <1>3, <2>1
  <2>3. First(k + 1) = First(k) \cup {Id(k + 1)}
    <3>1. \A j \in 1 .. k + 1 : j \in 1 .. k \/ j = k + 1
      BY <2>1
    <3>2. \A j \in 1 .. k : j \in 1 .. k + 1
      BY <2>1
    <3>3. k + 1 \in 1 .. k + 1
      BY <2>1
    <3> QED BY <3>1, <3>2, <3>3
  <2>4. Id(k + 1) \notin First(k)
    <3>1. \A j \in 1 .. k : Id(j) # Id(k + 1)
      <4> TAKE j \in 1 .. k
      <4>1. j \in 1 .. n /\ j < k + 1
        BY <1>1, <2>1
      <4>2. Id(j) < Id(k + 1) /\ Id(j) \in Nat /\ Id(k + 1) \in Nat
        BY <1>1, <2>1, <4>1
      <4> QED BY <4>2
    <3> QED BY <3>1
  <2> DEFINE f == First(k)
             x == Id(k + 1)
  <2> HIDE DEF First, f, x
  <2>5. IsFiniteSet(f \cup {x}) /\ Cardinality(f \cup {x}) = k + 1
    BY <2>2, <2>4, FS_AddElement DEF f, x
  <2>6. IsFiniteSet(First(k + 1)) /\ Cardinality(First(k + 1)) = k + 1
    BY <2>3, <2>5 DEF f, x
  <2> QED BY <2>1, <2>6
<1>4. \A k \in 0 .. n : IsFiniteSet(First(k)) /\ Cardinality(First(k)) = k
  <2>1. \A k \in 0 .. n : k \in T
    <3> HIDE DEF T
    <3> QED BY <1>1, <1>2, <1>3, Sizes!CountingUp
  <2> QED BY <2>1
<1>5. ASSUME NEW k \in 1 .. n
      PROVE  Cardinality({j \in c.input_ids : j <= Id(k)}) = k
  <2>1. {j \in c.input_ids : j <= Id(k)} = First(k)
    <3>1. \A j \in 1 .. n : Id(j) <= Id(k) => j \in 1 .. k
      <4> TAKE j \in 1 .. n
      <4>1. CASE k < j
        <5>1. Id(k) < Id(j) /\ Id(k) \in Nat /\ Id(j) \in Nat
          BY <1>1, <4>1
        <5> QED BY <5>1
      <4>2. CASE ~(k < j)
        BY <1>1, <4>2
      <4> QED BY <4>1, <4>2
    <3>2. \A j \in 1 .. k : j \in 1 .. n /\ Id(j) <= Id(k)
      <4> TAKE j \in 1 .. k
      <4>1. j \in 1 .. n /\ (j = k \/ j < k)
        BY <1>1
      <4>2. Id(j) \in Nat /\ Id(k) \in Nat /\ (Id(j) = Id(k) \/ Id(j) < Id(k))
        BY <1>1, <4>1
      <4> QED BY <4>1, <4>2
    <3>3. \A i \in First(n) : i <= Id(k) => i \in First(k)
      BY <3>1
    <3>4. \A i \in First(k) : i \in First(n) /\ i <= Id(k)
      BY <3>2
    <3> QED BY <1>1, <3>3, <3>4
  <2>2. k \in 0 .. n
    BY <1>1
  <2> HIDE DEF First
  <2> QED BY <1>4, <2>1, <2>2
<1>6. Cardinality(c.input_ids) = n
  <2>1. n \in 0 .. n
    BY <1>1
  <2> HIDE DEF First
  <2> QED BY <1>1, <1>4, <2>1
<1> QED BY <1>5, <1>6 DEF n, Id

\* The number of values that are sent.
LEMMA NumValuesIs ==
  ASSUME NEW c, NEW a, NEW conf, Orderly(conf), Reflects(c, a, conf)
  PROVE  /\ get_num_values(c) \in 0 .. Len(c.values)
         /\ ClearBit \notin c.input_ids => get_num_values(c) = Len(c.values)
<1>1. Len(c.values) \in Nat
  BY ReflectsIs
<1>2. ClearBit \notin c.input_ids => Cardinality(c.input_ids) = Len(c.values)
  BY RankIs
<1> QED BY <1>1, <1>2 DEF get_num_values, is_clear

\* What a control is encoded to (ModuleControl::encode, get_encoded_size).
LEMMA ControlEncodes ==
  ASSUME NEW c, NEW a, NEW conf, Orderly(conf), Reflects(c, a, conf)
  PROVE  LET buf == EncodeControl(c)
             n == get_num_values(c)
         IN  /\ buf \in Seq(Writes) /\ SizeOf(buf) = ControlSize(c) /\ Len(buf) = 1 + n
             /\ buf[1].data.module_id = c.module_id /\ buf[1].data.input_ids = c.input_ids
             /\ \A k \in 1 .. n : /\ buf[1 + k].size = c.values[k].input.data_type.width
                                  /\ buf[1 + k].data = c.values[k].value
<1> DEFINE n == get_num_values(c)
           hd == [module_id |-> c.module_id, input_ids |-> c.input_ids]
           w == Write(ControlHeaderSize, hd)
           one == <<w>>
           tail == [k \in 1 .. n |-> Write(c.values[k].input.data_type.width, c.values[k].value)]
           buf == EncodeControl(c)
           sent == SubSeq(c.values, 1, n)
           total == FoldLeft(LAMBDA sum, pair : sum + pair.input.data_type.width, 0, sent)
<1>1. /\ c.module_id \in Nat /\ c.input_ids \in SUBSET (0 .. ClearBit) /\ ClearBit \in Nat
      /\ c.values \in Seq(Pairs) /\ Len(c.values) \in Nat
      /\ \A k \in 1 .. Len(c.values) : c.values[k] \in Pairs
  <2>1. ClearBit \in Nat
    BY ControlLinkAssumption DEF ClearBit
  <2> QED BY <2>1, ReflectsIs
<1>2. n \in 0 .. Len(c.values) /\ n \in Nat
  <2>1. n \in 0 .. Len(c.values)
    BY NumValuesIs
  <2> QED BY <1>1, <2>1
<1> HIDE DEF n
<1>3. hd \in ControlHeaders /\ hd.module_id = c.module_id /\ hd.input_ids = c.input_ids
  BY <1>1 DEF ControlHeaders
<1> HIDE DEF hd
<1>4. w \in Writes /\ w.size = ControlHeaderSize /\ w.data = hd
  BY <1>3 DEF Write, Writes, ControlHeaderSize
<1> HIDE DEF w
<1>5. one \in Seq(Writes) /\ Len(one) = 1 /\ one[1] = w /\ SizeOf(one) = ControlHeaderSize
  BY <1>4, SizeOfOne
<1>6. \A p \in Pairs : /\ p.value \in Values /\ p.input.data_type.width \in Nat
  BY DEF Pairs, Inputs, Declarations
<1>7. \A k \in 1 .. n : /\ c.values[k] \in Pairs
                        /\ tail[k].size = c.values[k].input.data_type.width
                        /\ tail[k].data = c.values[k].value
                        /\ tail[k] \in Writes
  <2> TAKE k \in 1 .. n
  <2>1. c.values[k] \in Pairs
    BY <1>1, <1>2
  <2> DEFINE x == c.values[k].input.data_type.width
             y == c.values[k].value
  <2>2. x \in Nat /\ y \in Values
    BY <1>6, <2>1
  <2>3. tail[k] = Write(x, y)
    OBVIOUS
  <2> HIDE DEF x, y, tail
  <2>4. Write(x, y) \in Writes /\ Write(x, y).size = x /\ Write(x, y).data = y
    BY <2>2 DEF Write, Writes
  <2> QED BY <2>1, <2>3, <2>4 DEF x, y
<1>8. tail \in Seq(Writes) /\ Len(tail) = n
  <2>1. tail \in [1 .. n -> Writes]
    <3>1. \A k \in 1 .. n : tail[k] \in Writes
      BY <1>7
    <3>2. DOMAIN tail = 1 .. n /\ tail = [k \in 1 .. n |-> tail[k]]
      OBVIOUS
    <3> HIDE DEF tail
    <3> QED BY <3>1, <3>2
  <2> HIDE DEF tail
  <2> QED BY <1>2, <2>1
<1>9. buf = one \o tail
  BY DEF EncodeControl, w, hd, n
<1> HIDE DEF tail, buf, one
<1>10. /\ buf \in Seq(Writes) /\ Len(buf) = 1 + n /\ buf[1] = w
       /\ \A k \in 1 .. n : buf[1 + k] = tail[k]
       /\ SizeOf(buf) = ControlHeaderSize + SizeOf(tail)
  <2>1. \A s, t \in Seq(Writes) :
          /\ s \o t \in Seq(Writes) /\ Len(s \o t) = Len(s) + Len(t)
          /\ \A k \in 1 .. Len(s) : (s \o t)[k] = s[k]
          /\ \A k \in 1 .. Len(t) : (s \o t)[Len(s) + k] = t[k]
    BY Joined
  <2>2. SizeOf(one \o tail) = SizeOf(one) + SizeOf(tail)
    BY <1>5, <1>8, SizeOfParts
  <2>3. /\ one \o tail \in Seq(Writes) /\ Len(one \o tail) = Len(one) + Len(tail)
        /\ \A k \in 1 .. Len(one) : (one \o tail)[k] = one[k]
        /\ \A k \in 1 .. Len(tail) : (one \o tail)[Len(one) + k] = tail[k]
    BY <1>5, <1>8, <2>1
  <2>4. buf \in Seq(Writes) /\ Len(buf) = 1 + n /\ buf[1] = w /\ \A k \in 1 .. n : buf[1 + k] = tail[k]
    <3>1. 1 \in 1 .. Len(one)
      BY <1>5
    <3> QED BY <1>5, <1>8, <1>9, <2>3, <3>1
  <2> QED BY <1>5, <1>9, <2>2, <2>4
<1>11. sent \in Seq(Pairs) /\ Len(sent) = n /\ \A k \in 1 .. n : sent[k] = c.values[k]
  <2> DEFINE s == c.values
  <2>1. s \in Seq(Pairs) /\ n \in 0 .. Len(s)
    BY <1>1, <1>2
  <2> HIDE DEF s
  <2>2. SubSeq(s, 1, n) \in Seq(Pairs) /\ Len(SubSeq(s, 1, n)) = n
        /\ \A k \in 1 .. n : SubSeq(s, 1, n)[k] = s[k]
    BY <2>1
  <2> QED BY <2>2 DEF s
<1>12. total = PairSizes!Folded(0, sent)
  BY DEF PairSizes!Folded, FoldLeft, MapThenFoldSet, Max,
         PairSizes!MapThenFoldSet, PairSizes!Greatest, PlusPair
<1>13. ControlSize(c) = ControlHeaderSize + total
  BY DEF ControlSize, n
<1> HIDE DEF total, sent
<1>14. PICK g : /\ g[0] = 0
                /\ \A k \in 1 .. Len(sent) : g[k] = PlusPair(g[k - 1], sent[k])
                /\ PairSizes!Folded(0, sent) = g[Len(sent)]
  <2>1. sent \in Seq(Pairs)
    BY <1>11
  <2>2. \A b : \E f : /\ f[0] = b
                      /\ \A k \in 1 .. Len(sent) : f[k] = PlusPair(f[k - 1], sent[k])
                      /\ PairSizes!Folded(b, sent) = f[Len(sent)]
    BY <2>1, PairSizes!FoldLeftSteps
  <2> QED BY <2>2
<1>15. PICK f : /\ f[0] = 0
                /\ \A k \in 1 .. Len(tail) : f[k] = AddSize(f[k - 1], tail[k])
                /\ Sizes!Folded(0, tail) = f[Len(tail)]
  <2>1. tail \in Seq(Writes)
    BY <1>8
  <2>2. \A b : \E f : /\ f[0] = b
                      /\ \A k \in 1 .. Len(tail) : f[k] = AddSize(f[k - 1], tail[k])
                      /\ Sizes!Folded(b, tail) = f[Len(tail)]
    BY <2>1, Sizes!FoldLeftSteps
  <2> QED BY <2>2
<1>16. SizeOf(tail) = Sizes!Folded(0, tail)
  BY DEF SizeOf, Sizes!Folded, FoldLeft, MapThenFoldSet, Max,
         Sizes!MapThenFoldSet, Sizes!Greatest, AddSize
<1> DEFINE T == {k \in Nat : k \in 0 .. n => f[k] = g[k]}
<1>17. 0 \in T
  BY <1>14, <1>15
<1>18. ASSUME NEW k \in 0 .. n - 1, k \in T PROVE k + 1 \in T
  <2>1. k \in Nat /\ k \in 0 .. n /\ k + 1 \in 1 .. n /\ (k + 1) - 1 = k
    BY <1>2
  <2>2. f[k] = g[k]
    BY <1>18, <2>1
  <2>3. f[k + 1] = f[k] + tail[k + 1].size
    BY <1>8, <1>15, <2>1 DEF AddSize
  <2>4. g[k + 1] = g[k] + sent[k + 1].input.data_type.width
    BY <1>11, <1>14, <2>1 DEF PlusPair
  <2>5. tail[k + 1].size = sent[k + 1].input.data_type.width
    BY <1>7, <1>11, <2>1
  <2> QED BY <2>1, <2>2, <2>3, <2>4, <2>5
<1>19. f[n] = g[n]
  <2>1. \A k \in 0 .. n : k \in T
    <3> HIDE DEF T
    <3> QED BY <1>2, <1>17, <1>18, Sizes!CountingUp
  <2>2. n \in 0 .. n
    BY <1>2
  <2> QED BY <2>1, <2>2
<1>20. SizeOf(buf) = ControlSize(c)
  BY <1>8, <1>10, <1>11, <1>12, <1>13, <1>14, <1>15, <1>16, <1>19
<1>21. buf[1].data.module_id = c.module_id /\ buf[1].data.input_ids = c.input_ids
  BY <1>3, <1>4, <1>10
<1>22. \A k \in 1 .. n : /\ buf[1 + k].size = c.values[k].input.data_type.width
                         /\ buf[1 + k].data = c.values[k].value
  BY <1>7, <1>10
<1> QED BY <1>10, <1>20, <1>21, <1>22 DEF buf, n

\* The slave decodes what a control says, and its assertions hold, unless
\* reset() took the identifier (ModuleControl::decode).
LEMMA ControlApplies ==
  ASSUME NEW c, NEW a, NEW conf, Orderly(conf), Reflects(c, a, conf)
  PROVE  ~a.reset =>
           LET got == DecodeControl(EncodeControl(c), conf)
           IN  /\ Decodable(EncodeControl(c), conf)
               /\ got.module = a.module /\ got.values = a.values /\ got.cleared = a.cleared
<1> DEFINE buf == EncodeControl(c)
           n == get_num_values(c)
           h == buf[1].data
           m == conf.modules[h.module_id + 1]
           Rank(i) == Cardinality({j \in h.input_ids : j <= i})
           Got(i) == [input |-> m.inputs[i + 1],
                      value |-> DecodeValue(m.inputs[i + 1].data_type, buf, Rank(i) + 1)]
           got == DecodeControl(buf, conf)
<1>1. /\ Len(buf) = 1 + n /\ h.module_id = c.module_id /\ h.input_ids = c.input_ids
      /\ \A k \in 1 .. n : /\ buf[1 + k].size = c.values[k].input.data_type.width
                           /\ buf[1 + k].data = c.values[k].value
  BY ControlEncodes
<1>2. /\ c.module \in 1 .. Len(conf.modules) /\ a.reset \in BOOLEAN
      /\ Len(c.values) \in Nat
      /\ \A k \in 1 .. Len(c.values) : c.values[k] \in Pairs
      /\ ToSet(c.values) = {c.values[k] : k \in 1 .. Len(c.values)}
  BY ReflectsIs
<1>3. /\ ClearBit \in c.input_ids => a.values = {} /\ a.cleared = c.input_ids \ {ClearBit}
      /\ ClearBit \notin c.input_ids =>
           /\ \A i \in c.input_ids : \E p \in ToSet(c.values) : i = p.input.input_id
           /\ a.values = ToSet(c.values) /\ a.cleared = {}
  BY ReflectsIs
<1>4. /\ a.module = [id |-> c.module - 1, name |-> conf.modules[c.module].name]
      /\ c.module_id = (IF a.reset THEN 0 ELSE c.module - 1)
  BY DEF Reflects
<1>5. /\ conf.modules \in Seq(Modules) /\ Len(conf.modules) \in Nat
      /\ \A k \in 1 .. Len(conf.modules) : conf.modules[k].id = k - 1
  BY DEF Orderly, Configurations
<1>6. ClearBit \notin c.input_ids =>
        /\ n = Len(c.values)
        /\ \A k \in 1 .. n : Cardinality({j \in c.input_ids : j <= c.values[k].input.input_id}) = k
  BY NumValuesIs, RankIs
<1>7. \A p \in Pairs : /\ p = [input |-> p.input, value |-> p.value] /\ p.input.input_id \in Nat
  BY DEF Pairs, Inputs
<1>8. /\ got.module = [id |-> m.id, name |-> m.name]
      /\ got.values = IF ClearBit \in h.input_ids THEN {} ELSE {Got(i) : i \in h.input_ids}
      /\ got.cleared = IF ClearBit \in h.input_ids THEN h.input_ids \ {ClearBit} ELSE {}
  BY DEF DecodeControl
<1> HIDE DEF buf, n, h, got
<1>9. CASE c.module_id = c.module - 1
  <2>1. h.module_id + 1 = c.module /\ m = conf.modules[c.module] /\ m.id = c.module - 1
    BY <1>1, <1>2, <1>5, <1>9
  <2>2. got.module = a.module
    BY <1>4, <1>8, <2>1
  <2>3. \A p \in ToSet(c.values) :
          /\ p \in Pairs /\ p.input.input_id \in c.input_ids
          /\ p.input.input_id + 1 \in 1 .. Len(conf.modules[c.module].inputs)
          /\ conf.modules[c.module].inputs[p.input.input_id + 1] = p.input
    BY PairReflects
  <2> HIDE DEF m
  <2>4. CASE ClearBit \in c.input_ids
    <3>1. got.values = a.values /\ got.cleared = a.cleared
      BY <1>1, <1>3, <1>8, <2>4
    <3>2. Decodable(buf, conf)
      <4>1. h.module_id < Len(conf.modules)
        BY <1>1, <1>2, <1>5, <1>9
      <4> QED BY <1>1, <2>4, <4>1 DEF Decodable, h
    <3> QED BY <2>2, <3>1, <3>2 DEF buf, got
  <2>5. CASE ClearBit \notin c.input_ids
    <3>1. ASSUME NEW k \in 1 .. n
          PROVE  c.values[k].input.input_id \in c.input_ids /\ Got(c.values[k].input.input_id) = c.values[k]
      <4> DEFINE p == c.values[k]
                 i == p.input.input_id
      <4>1. p \in ToSet(c.values) /\ k \in 1 .. Len(c.values)
        BY <1>2, <1>6, <2>5
      <4>2. p \in Pairs /\ i \in c.input_ids /\ m.inputs[i + 1] = p.input
        BY <2>1, <2>3, <4>1
      <4>3. Rank(i) = k
        BY <1>1, <1>6, <2>5
      <4>4. DecodeValue(p.input.data_type, buf, k + 1) = p.value
        <5>1. k + 1 = 1 + k /\ ~(k + 1 > Len(buf))
          BY <1>1, <1>2, <1>6, <2>5
        <5>2. buf[k + 1].size = p.input.data_type.width /\ buf[k + 1].data = p.value
          BY <1>1, <5>1
        <5> HIDE DEF p
        <5> QED BY <5>1, <5>2 DEF DecodeValue
      <4> HIDE DEF p
      <4>5. Got(i) = [input |-> p.input, value |-> p.value]
        BY <4>2, <4>3, <4>4
      <4> HIDE DEF Got, i
      <4>6. Got(i) = p
        BY <1>7, <4>2, <4>5
      <4> QED BY <4>2, <4>6 DEF p, i
    <3>2. \A i \in c.input_ids : \E k \in 1 .. n : i = c.values[k].input.input_id
      BY <1>2, <1>3, <1>6, <2>5
    <3> HIDE DEF Got
    <3>3. {Got(i) : i \in c.input_ids} = ToSet(c.values)
      <4>1. \A i \in c.input_ids : Got(i) \in ToSet(c.values)
        <5> TAKE i \in c.input_ids
        <5>1. PICK k \in 1 .. n : i = c.values[k].input.input_id
          BY <3>2
        <5>2. Got(i) = c.values[k]
          BY <3>1, <5>1
        <5>3. c.values[k] \in ToSet(c.values)
          BY <1>2, <1>6, <2>5
        <5> QED BY <5>2, <5>3
      <4>2. \A p \in ToSet(c.values) : \E i \in c.input_ids : Got(i) = p
        BY <1>2, <1>6, <2>5, <3>1
      <4> QED BY <4>1, <4>2
    <3>4. got.values = a.values /\ got.cleared = a.cleared
      BY <1>1, <1>3, <1>8, <2>5, <3>3
    <3>5. \A i \in c.input_ids : i < Len(conf.modules[c.module].inputs)
      <4> TAKE i \in c.input_ids
      <4>1. PICK p \in ToSet(c.values) : i = p.input.input_id
        BY <1>3, <2>5
      <4>2. i \in Nat /\ i + 1 \in 1 .. Len(conf.modules[c.module].inputs)
        BY <1>7, <2>3, <4>1
      <4>3. Len(conf.modules[c.module].inputs) \in Nat
        <5>1. conf.modules[c.module] \in Modules
          BY <1>2, <1>5
        <5> QED BY <5>1 DEF Modules
      <4> QED BY <4>2, <4>3
    <3>6. Decodable(buf, conf)
      <4>1. h.module_id < Len(conf.modules)
        BY <1>1, <1>2, <1>5, <1>9
      <4>2. \A i \in h.input_ids : i < Len(m.inputs)
        BY <1>1, <2>1, <3>5
      <4> QED BY <4>1, <4>2 DEF Decodable, h, m
    <3> QED BY <2>2, <3>4, <3>6 DEF buf, got
  <2> QED BY <2>4, <2>5
<1>10. CASE c.module_id # c.module - 1
  BY <1>4, <1>10
<1> QED BY <1>9, <1>10

\* A control still says the same after more was added.
LEMMA ReflectsLater ==
  ASSUME NEW c, NEW a, NEW conf, NEW later, Orderly(conf), Orderly(later), Before(conf, later),
         Reflects(c, a, conf)
  PROVE  Reflects(c, a, later)
<1>1. c.module \in 1 .. Len(conf.modules) /\ Len(conf.modules) \in Nat /\ Len(later.modules) \in Nat
  BY DEF Reflects, Orderly, Configurations
<1>2. /\ c.module \in 1 .. Len(later.modules)
      /\ conf.modules[c.module].name = later.modules[c.module].name
      /\ SameUpTo(conf.modules[c.module].inputs, later.modules[c.module].inputs)
  BY <1>1 DEF Before
<1>3. PairsFit(c, later.modules[c.module])
  <2>1. PairsFit(c, conf.modules[c.module])
    BY DEF Reflects
  <2>2. /\ Len(conf.modules[c.module].inputs) \in Nat
        /\ Len(later.modules[c.module].inputs) \in Nat
    <3>1. conf.modules[c.module] \in Modules /\ later.modules[c.module] \in Modules
      BY <1>1, <1>2 DEF Orderly, Configurations
    <3>2. \A m \in Modules : Len(m.inputs) \in Nat
      BY DEF Modules
    <3> QED BY <3>1, <3>2
  <2> DEFINE s == conf.modules[c.module].inputs
             t == later.modules[c.module].inputs
  <2>3. Len(s) \in Nat /\ Len(t) \in Nat /\ Len(s) <= Len(t) /\ \A i \in 1 .. Len(s) : t[i] = s[i]
    BY <1>2, <2>2 DEF SameUpTo
  <2>4. \A k \in 1 .. Len(c.values) :
          /\ c.values[k].input.input_id \in c.input_ids
          /\ c.values[k].input.input_id + 1 \in 1 .. Len(s)
          /\ s[c.values[k].input.input_id + 1] = c.values[k].input
    BY <2>1 DEF PairsFit
  <2> HIDE DEF s, t
  <2>5. \A k \in 1 .. Len(c.values) :
          /\ c.values[k].input.input_id \in c.input_ids
          /\ c.values[k].input.input_id + 1 \in 1 .. Len(t)
          /\ t[c.values[k].input.input_id + 1] = c.values[k].input
    BY <2>3, <2>4
  <2> QED BY <2>5 DEF PairsFit, t
<1> QED BY <1>2, <1>3 DEF Reflects

\* And does what was asked of it.
LEMMA ServesLater ==
  ASSUME NEW c, NEW a, NEW conf, NEW later, Orderly(conf), Orderly(later), Before(conf, later),
         Serves(c, a, conf)
  PROVE  Serves(c, a, later)
<1>1. PICK says \in Sayings : Reflects(c, says, conf) /\ says.reset = a.reset /\ Does(says, a)
  BY DEF Serves
<1>2. Reflects(c, says, later)
  BY <1>1, ReflectsLater
<1> QED BY <1>1, <1>2 DEF Serves

-----------------------------------------------------------------------------
(* What the calls on a control do to what was asked.                       *)

\* A value is set: it is said, or the input is cleared when others are.
LEMMA DoesSet ==
  ASSUME NEW c, NEW says \in Sayings, NEW a \in Askings, NEW input \in Inputs,
         NEW v \in Values, NEW b \in Askings,
         Does(says, a), a.clears <=> is_clear(c),
         b.module = a.module, b.read = a.read, b.clears = a.clears,
         b.values = {p \in a.values : p.input # input} \cup {[input |-> input, value |-> v]},
         b.cleared = a.cleared \ {input.input_id}
  PROVE  Does(Answered(c, says, input, v), b)
<1> DEFINE id == input.input_id
           pair == [input |-> input, value |-> v]
           t == Answered(c, says, input, v)
<1>1. CASE is_clear(c)
  <2>1. /\ t.module = says.module /\ t.values = says.values
        /\ t.cleared = says.cleared \cup {id}
    BY <1>1 DEF Answered, Sayings
  <2>2. pair \in b.values /\ pair.input = input
    OBVIOUS
  <2>3. ASSUME NEW i \in t.cleared \ b.cleared
        PROVE  \E j \in b.read \cup {p.input : p \in b.values} : j.input_id = i
    <3>1. CASE i = id
      BY <2>2, <3>1
    <3>2. CASE i # id
      <4>1. i \in says.cleared \ a.cleared
        BY <2>1, <2>3, <3>2
      <4>2. PICK j \in a.read \cup {p.input : p \in a.values} : j.input_id = i
        BY <1>1, <4>1 DEF Does
      <4>3. CASE j \in a.read
        BY <4>2, <4>3
      <4>4. ASSUME NEW p \in a.values, j = p.input
            PROVE  j \in {q.input : q \in b.values}
        BY <3>2, <4>2, <4>4
      <4> QED BY <4>2, <4>3, <4>4
    <3> QED BY <3>1, <3>2
  <2>4. t.module = b.module /\ b.cleared \subseteq t.cleared /\ t.values = {} /\ b.clears
    BY <1>1, <2>1 DEF Does
  <2> HIDE DEF t
  <2>5. Does(t, b)
    BY <2>3, <2>4 DEF Does
  <2> QED BY <2>5 DEF t
<1>2. CASE ~is_clear(c)
  <2>1. /\ t.module = says.module /\ t.cleared = says.cleared
        /\ t.values = {p \in says.values : p.input # input} \cup {pair}
    BY <1>2 DEF Answered, Sayings
  <2>2. /\ a.values \subseteq says.values /\ says.cleared = {} /\ says.module = a.module
        /\ a.cleared \subseteq says.cleared
        /\ \A p \in says.values \ a.values : p.input \in a.read /\ p.value = Zero
    BY <1>2 DEF Does
  <2> HIDE DEF t, pair
  <2>3. b.values = {p \in a.values : p.input # input} \cup {pair}
    BY DEF pair
  <2>4. b.values \subseteq t.values
    BY <2>1, <2>2, <2>3
  <2>5. \A p \in t.values \ b.values : p.input \in b.read /\ p.value = Zero
    BY <2>1, <2>2, <2>3
  <2>6. t.module = b.module /\ b.cleared \subseteq t.cleared /\ t.cleared = {} /\ ~b.clears
    BY <1>2, <2>1, <2>2
  <2>7. Does(t, b)
    BY <2>4, <2>5, <2>6 DEF Does
  <2> QED BY <2>7 DEF t, pair
<1> QED BY <1>1, <1>2

\* A value is looked at: what that adds to the control is excused.
LEMMA DoesRead ==
  ASSUME NEW c, NEW says \in Sayings, NEW a \in Askings, NEW input \in Inputs,
         NEW b \in Askings, Does(says, a), a.clears <=> is_clear(c),
         \A p \in says.values : p.input # input,
         b.module = a.module, b.values = a.values, b.cleared = a.cleared,
         b.read = a.read \cup {input}, b.clears = a.clears
  PROVE  Does(Answered(c, says, input, Zero), b)
<1> DEFINE id == input.input_id
           pair == [input |-> input, value |-> Zero]
           t == Answered(c, says, input, Zero)
<1>1. CASE is_clear(c)
  <2>1. /\ t.module = says.module /\ t.values = says.values
        /\ t.cleared = says.cleared \cup {id}
    BY <1>1 DEF Answered, Sayings
  <2>2. ASSUME NEW i \in t.cleared \ b.cleared
        PROVE  \E j \in b.read \cup {p.input : p \in b.values} : j.input_id = i
    <3>1. CASE i = id
      BY <3>1
    <3>2. CASE i # id
      <4>1. i \in says.cleared \ a.cleared
        BY <2>1, <2>2, <3>2
      <4>2. PICK j \in a.read \cup {p.input : p \in a.values} : j.input_id = i
        BY <1>1, <4>1 DEF Does
      <4> QED BY <4>2
    <3> QED BY <3>1, <3>2
  <2>3. t.module = b.module /\ b.cleared \subseteq t.cleared /\ t.values = {} /\ b.clears
    BY <1>1, <2>1 DEF Does
  <2> HIDE DEF t
  <2>4. Does(t, b)
    BY <2>2, <2>3 DEF Does
  <2> QED BY <2>4 DEF t
<1>2. CASE ~is_clear(c)
  <2>1. /\ t.module = says.module /\ t.cleared = says.cleared
        /\ t.values = {p \in says.values : p.input # input} \cup {pair}
    BY <1>2 DEF Answered, Sayings
  <2>2. /\ a.values \subseteq says.values /\ says.cleared = {} /\ says.module = a.module
        /\ a.cleared \subseteq says.cleared
        /\ \A p \in says.values \ a.values : p.input \in a.read /\ p.value = Zero
    BY <1>2 DEF Does
  <2>3. pair.input = input /\ pair.value = Zero
    OBVIOUS
  <2> HIDE DEF t, pair
  <2>4. b.values \subseteq t.values
    BY <2>1, <2>2
  <2>5. \A p \in t.values \ b.values : p.input \in b.read /\ p.value = Zero
    BY <2>1, <2>2, <2>3
  <2>6. t.module = b.module /\ b.cleared \subseteq t.cleared /\ t.cleared = {} /\ ~b.clears
    BY <1>2, <2>1, <2>2
  <2>7. Does(t, b)
    BY <2>4, <2>5, <2>6 DEF Does
  <2> QED BY <2>7 DEF t, pair
<1> QED BY <1>1, <1>2

\* Inputs are cleared, when nothing is said but what to clear.
LEMMA DoesClear ==
  ASSUME NEW c, NEW says \in Sayings, NEW a \in Askings, NEW inputs \in SUBSET Inputs,
         NEW b \in Askings, Does(says, a), a.clears <=> is_clear(c),
         says.values = {}, ~is_clear(c) => says.cleared = {},
         b.module = a.module, b.read = a.read, b.clears,
         b.values = {p \in a.values : p.input \notin inputs},
         b.cleared = a.cleared \cup {i.input_id : i \in inputs}
  PROVE  Does([says EXCEPT !.cleared = @ \cup {i.input_id : i \in inputs}], b)
<1> DEFINE ids == {i.input_id : i \in inputs}
           t == [says EXCEPT !.cleared = @ \cup ids]
<1>1. t.module = says.module /\ t.values = {} /\ t.cleared = says.cleared \cup ids
  BY DEF Sayings
<1>2. says.module = a.module /\ a.cleared \subseteq says.cleared
  BY DEF Does
<1>3. ASSUME NEW i \in t.cleared \ b.cleared
      PROVE  \E j \in b.read \cup {p.input : p \in b.values} : j.input_id = i
  <2>1. i \in says.cleared \ a.cleared /\ i \notin ids
    BY <1>1, <1>3
  <2>2. a.clears
    BY <2>1
  <2>3. PICK j \in a.read \cup {p.input : p \in a.values} : j.input_id = i
    BY <2>1, <2>2 DEF Does
  <2>4. j \notin inputs
    BY <2>1, <2>3
  <2>5. ASSUME NEW p \in a.values, j = p.input
        PROVE  j \in {q.input : q \in b.values}
    BY <2>4, <2>5
  <2> QED BY <2>3, <2>5
<1>4. b.cleared \subseteq t.cleared
  BY <1>1, <1>2
<1> HIDE DEF t
<1>5. Does(t, b)
  BY <1>1, <1>2, <1>3, <1>4 DEF Does
<1> QED BY <1>5 DEF t, ids

-----------------------------------------------------------------------------
(* The inductive invariant.  What is on its way up was made from a         *)
(* configuration between the master's and the slave's, in the order of     *)
(* their growth; what is on its way down was made from a control that does *)
(* what was asked, of the configuration that the master has now.           *)

Response(c) ==
  Message("CONFIGURATION_RESPONSE", ConfigurationSize(c), EncodeConfiguration(c), c)

ControlSent(c, a) == Message("MODULE_CONTROL", ControlSize(c), EncodeControl(c), a)

Answers ==
  UNION {{Response(c), Damage(Response(c))} : c \in {d \in Configurations : Orderly(d)}}

OrdersFor(conf) ==
  {Query}
    \cup UNION {{ControlSent(p[1], p[2]), Damage(ControlSent(p[1], p[2]))}
                  : p \in {q \in Controls \X Askings : Serves(q[1], q[2], conf)}}

EndsAgree ==
  /\ Orderly(slave) /\ slave.next_module_id = Len(slave.modules)
  /\ Orderly(master) /\ Before(master, slave)

AnswersInOrder ==
  /\ up \in Seq(Answers)
  /\ \A k \in 1 .. Len(up) : Before(master, up[k].meant) /\ Before(up[k].meant, slave)
  /\ \A j, k \in 1 .. Len(up) : j < k => Before(up[j].meant, up[k].meant)

ControlReflects ==
  (control = NoControl /\ asked = Nothing) \/ Serves(control, asked, master)

IInv ==
  /\ EndsAgree
  /\ AnswersInOrder
  /\ ControlReflects
  /\ down \in Seq(OrdersFor(master))

\* An answer decodes to the modules it was made from.
LEMMA AnswerIs ==
  ASSUME NEW m \in Answers
  PROVE  /\ Orderly(m.meant) /\ m.meant \in Configurations
         /\ Len(m.body) = m.writes /\ m.length = SizeOf(m.body) + MESSAGE_CHECKSUM_SIZE
         /\ has_checksum(m.type)
         /\ checksum_ok(m) =>
              DecodeConfiguration(m.body) = [modules |-> m.meant.modules, next_module_id |-> 0]
         /\ Damage(m) \in Answers /\ Damage(m).meant = m.meant
<1>1. PICK c \in Configurations : Orderly(c) /\ m \in {Response(c), Damage(Response(c))}
  BY DEF Answers
<1> DEFINE ws == EncodeConfiguration(c)
<1>2. /\ ws \in Seq(Writes) /\ ConfigurationSize(c) = SizeOf(ws)
      /\ DecodeConfiguration(ws) = [modules |-> c.modules, next_module_id |-> 0]
  BY <1>1, ConfigurationRoundTrip DEF Orderly
<1>3. Response(c) = Message("CONFIGURATION_RESPONSE", SizeOf(ws), ws, c)
  BY <1>2 DEF Response
<1> HIDE DEF ws
<1>4. \A x \in {Response(c), Damage(Response(c))} :
        /\ x.meant = c /\ Damage(x) = Damage(Response(c))
        /\ Len(x.body) = x.writes /\ x.length = SizeOf(x.body) + MESSAGE_CHECKSUM_SIZE
        /\ has_checksum(x.type) /\ (checksum_ok(x) => x.body = ws)
  BY <1>2, <1>3, MessageIs
<1>5. Damage(Response(c)) \in Answers /\ Damage(Response(c)).meant = c
  BY <1>1, <1>4 DEF Answers
<1> QED BY <1>1, <1>2, <1>4, <1>5

\* An order is a query, or a control that still does what was asked.
LEMMA OrderIs ==
  ASSUME NEW conf, Orderly(conf), NEW m \in OrdersFor(conf)
  PROVE  /\ Damage(m) \in OrdersFor(conf)
         /\ m.type = "MODULE_CONTROL" /\ checksum_ok(m) =>
              \E c, a : Serves(c, a, conf) /\ m.body = EncodeControl(c) /\ m.meant = a
         /\ Len(m.body) = m.writes
         /\ m.length = SizeOf(m.body) + (IF has_checksum(m.type) THEN MESSAGE_CHECKSUM_SIZE ELSE 0)
<1>1. CASE m = Query
  <2>1. Damage(Query) = Query
    <3>1. [k \in DOMAIN <<>> |-> [(<<>>)[k] EXCEPT !.data = Absent]] = <<>>
      OBVIOUS
    <3> QED BY <3>1 DEF Damage, Query
  <2>2. Query \in OrdersFor(conf)
    BY DEF OrdersFor
  <2>3. m.type # "MODULE_CONTROL" /\ ~has_checksum(m.type) /\ m.body = <<>> /\ m.length = 0
        /\ m.writes = 0
    BY <1>1 DEF Query, has_checksum
  <2> QED BY <1>1, <2>1, <2>2, <2>3, SizeIs
<1>2. ASSUME NEW c \in Controls, NEW a \in Askings, Serves(c, a, conf),
             m \in {ControlSent(c, a), Damage(ControlSent(c, a))}
      PROVE  /\ Damage(m) \in OrdersFor(conf)
             /\ m.meant = a /\ (checksum_ok(m) => m.body = EncodeControl(c))
             /\ Len(m.body) = m.writes /\ m.length = SizeOf(m.body) + MESSAGE_CHECKSUM_SIZE
             /\ has_checksum(m.type)
  <2> DEFINE ws == EncodeControl(c)
  <2>1. ws \in Seq(Writes) /\ ControlSize(c) = SizeOf(ws)
    <3>1. PICK says \in Sayings : Reflects(c, says, conf)
      BY <1>2 DEF Serves
    <3> QED BY <3>1, ControlEncodes
  <2>2. ControlSent(c, a) = Message("MODULE_CONTROL", SizeOf(ws), ws, a)
    BY <2>1 DEF ControlSent
  <2> HIDE DEF ws
  <2>3. /\ m.meant = a /\ Damage(m) = Damage(ControlSent(c, a))
        /\ Len(m.body) = m.writes /\ m.length = SizeOf(m.body) + MESSAGE_CHECKSUM_SIZE
        /\ has_checksum(m.type) /\ (checksum_ok(m) => m.body = ws)
    BY <1>2, <2>1, <2>2, MessageIs
  <2>4. Damage(ControlSent(c, a)) \in OrdersFor(conf)
    <3> DEFINE p == <<c, a>>
    <3>1. p \in {q \in Controls \X Askings : Serves(q[1], q[2], conf)} /\ p[1] = c /\ p[2] = a
      BY <1>2
    <3> HIDE DEF p
    <3>2. Damage(ControlSent(p[1], p[2])) \in OrdersFor(conf)
      BY <3>1 DEF OrdersFor
    <3> QED BY <3>1, <3>2
  <2> QED BY <2>3, <2>4 DEF ws
<1>3. m = Query \/ \E c \in Controls, a \in Askings :
        Serves(c, a, conf) /\ m \in {ControlSent(c, a), Damage(ControlSent(c, a))}
  BY DEF OrdersFor
<1> QED BY <1>1, <1>2, <1>3

\* A control that is sent is an order.
LEMMA ControlIsOrder ==
  ASSUME NEW conf, NEW c, NEW a, Serves(c, a, conf)
  PROVE  ControlSent(c, a) \in OrdersFor(conf)
<1> DEFINE p == <<c, a>>
<1>1. p \in {q \in Controls \X Askings : Serves(q[1], q[2], conf)} /\ p[1] = c /\ p[2] = a
  BY DEF Serves, Reflects
<1> HIDE DEF p
<1>2. ControlSent(p[1], p[2]) \in OrdersFor(conf)
  BY <1>1 DEF OrdersFor
<1> QED BY <1>1, <1>2

\* An order stays one while the configuration grows.
LEMMA OrdersLast ==
  ASSUME NEW conf, NEW later, Orderly(conf), Orderly(later), Before(conf, later)
  PROVE  OrdersFor(conf) \subseteq OrdersFor(later)
<1>1. {q \in Controls \X Askings : Serves(q[1], q[2], conf)}
        \subseteq {q \in Controls \X Askings : Serves(q[1], q[2], later)}
  BY ServesLater
<1> QED BY <1>1 DEF OrdersFor
-----------------------------------------------------------------------------
(* Each action keeps the invariant. *)

\* A configuration that is declared further keeps all that was sent valid.
LEMMA SlaveGrows ==
  ASSUME IInv, Orderly(slave'), slave'.next_module_id = Len(slave'.modules),
         Before(slave, slave'), SlaveUnchanged
  PROVE  IInv'
<1>1. EndsAgree'
  <2>1. Before(master, slave')
    BY BeforeAgain DEF IInv, EndsAgree, Orderly
  <2> QED BY <2>1 DEF IInv, EndsAgree, SlaveUnchanged
<1>2. AnswersInOrder'
  <2>1. \A k \in 1 .. Len(up) : up[k].meant \in Configurations
    <3>1. up \in Seq(Answers)
      BY DEF IInv, AnswersInOrder
    <3>2. \A k \in 1 .. Len(up) : up[k] \in Answers
      BY <3>1
    <3> QED BY <3>2, AnswerIs
  <2>2. \A k \in 1 .. Len(up) : Before(up[k].meant, slave')
    <3> TAKE k \in 1 .. Len(up)
    <3>1. Before(up[k].meant, slave)
      BY DEF IInv, AnswersInOrder
    <3> QED BY <2>1, <3>1, BeforeAgain DEF IInv, EndsAgree, Orderly
  <2> QED BY <2>2 DEF IInv, AnswersInOrder, SlaveUnchanged
<1> QED BY <1>1, <1>2 DEF IInv, SlaveUnchanged, ControlReflects

\* A module is declared, with the next identifier.
LEMMA AddModuleKeeps == IInv /\ AddModule => IInv'
<1> SUFFICES ASSUME IInv, AddModule PROVE IInv'
  OBVIOUS
<1>1. PICK name \in ModuleNames : slave' = add_module(slave, name)
  BY DEF AddModule
<1>2. name \in Names
  BY ControlLinkAssumption
<1>3. Orderly(slave') /\ Before(slave, slave') /\ slave'.next_module_id = Len(slave'.modules)
  BY <1>1, <1>2, AddModuleGrows DEF IInv, EndsAgree
<1> QED BY <1>3, SlaveGrows DEF AddModule

\* An input is declared, while the mask has a bit for it.
LEMMA AddInputKeeps == IInv /\ AddInput => IInv'
<1> SUFFICES ASSUME IInv, AddInput PROVE IInv'
  OBVIOUS
<1>1. PICK k \in DOMAIN slave.modules, i \in InputsToAdd :
        /\ Len(slave.modules[k].inputs) < MAX_INPUTS
        /\ slave' = [slave EXCEPT !.modules[k] = add_input(@, i[2], i[3])]
  BY DEF AddInput
<1>2. i[2] \in Names /\ i[3] \in TypedDeclarations
  BY ControlLinkAssumption
<1> DEFINE m == slave.modules[k]
           d == add_input(m, i[2], i[3])
<1>3. Orderly(slave) /\ slave.next_module_id = Len(slave.modules)
      /\ DOMAIN slave.modules = 1 .. Len(slave.modules) /\ m \in Modules /\ Numbered(m)
  BY <1>1 DEF IInv, EndsAgree, Orderly, Configurations
<1>4. Len(m.inputs) \in Nat /\ MAX_INPUTS \in Nat
  <2>1. \A x \in Modules : Len(x.inputs) \in Nat
    BY DEF Modules
  <2>2. MAX_INPUTS \in Nat
    BY ControlLinkAssumption DEF MAX_INPUTS
  <2> QED BY <1>3, <2>1, <2>2
<1>5. /\ d \in Modules /\ d.id = m.id /\ d.name = m.name /\ Numbered(d)
      /\ SameUpTo(m.inputs, d.inputs) /\ SameUpTo(m.sensors, d.sensors)
      /\ Len(d.inputs) = Len(m.inputs) + 1
  BY <1>2, <1>3, AddInputGrows
<1>6. Len(d.inputs) <= MAX_INPUTS
  BY <1>1, <1>4, <1>5
<1>7. slave' = [slave EXCEPT !.modules[k] = d]
  BY <1>1
<1> HIDE DEF d
<1>8. /\ Orderly(slave') /\ Before(slave, slave')
      /\ Len(slave'.modules) = Len(slave.modules) /\ slave'.next_module_id = slave.next_module_id
  BY <1>3, <1>5, <1>6, <1>7, ModuleGrows
<1> QED BY <1>3, <1>8, SlaveGrows DEF AddInput

\* A sensor is declared.
LEMMA AddSensorKeeps == IInv /\ AddSensor => IInv'
<1> SUFFICES ASSUME IInv, AddSensor PROVE IInv'
  OBVIOUS
<1>1. PICK k \in DOMAIN slave.modules, s \in SensorsToAdd :
        slave' = [slave EXCEPT !.modules[k] = add_sensor(@, s[2], s[3])]
  BY DEF AddSensor
<1>2. s[2] \in Names /\ s[3] \in TypedDeclarations
  BY ControlLinkAssumption
<1> DEFINE m == slave.modules[k]
           d == add_sensor(m, s[2], s[3])
<1>3. /\ Orderly(slave) /\ slave.next_module_id = Len(slave.modules)
      /\ DOMAIN slave.modules = 1 .. Len(slave.modules) /\ m \in Modules /\ Numbered(m)
      /\ Len(m.inputs) <= MAX_INPUTS
  <2>1. Orderly(slave) /\ slave.next_module_id = Len(slave.modules)
    BY DEF IInv, EndsAgree
  <2>2. slave.modules \in Seq(Modules)
    BY <2>1 DEF Orderly, Configurations
  <2>3. DOMAIN slave.modules = 1 .. Len(slave.modules) /\ m \in Modules
    BY <1>1, <2>2
  <2>4. Numbered(m) /\ Len(m.inputs) <= MAX_INPUTS
    BY <1>1, <2>1, <2>3 DEF Orderly
  <2> QED BY <2>1, <2>3, <2>4
<1>4. /\ d \in Modules /\ d.id = m.id /\ d.name = m.name /\ Numbered(d)
      /\ SameUpTo(m.inputs, d.inputs) /\ SameUpTo(m.sensors, d.sensors)
      /\ Len(d.inputs) = Len(m.inputs)
  BY <1>2, <1>3, AddSensorGrows
<1>5. slave' = [slave EXCEPT !.modules[k] = d]
  BY <1>1
<1> HIDE DEF d
<1>6. /\ Orderly(slave') /\ Before(slave, slave')
      /\ Len(slave'.modules) = Len(slave.modules) /\ slave'.next_module_id = slave.next_module_id
  BY <1>3, <1>4, <1>5, ModuleGrows
<1> QED BY <1>3, <1>6, SlaveGrows DEF AddSensor

\* The master asks for the configuration.
LEMMA SendQueryKeeps == IInv /\ SendQuery => IInv'
<1> SUFFICES ASSUME IInv, SendQuery PROVE IInv'
  OBVIOUS
<1>1. Query \in OrdersFor(master)
  BY DEF OrdersFor
<1>2. down' \in Seq(OrdersFor(master'))
  <2> DEFINE O == OrdersFor(master)
  <2>1. down \in Seq(O) /\ Query \in O /\ down' = Append(down, Query) /\ master' = master
    BY <1>1 DEF IInv, SendQuery
  <2>2. OrdersFor(master') = O
    BY <2>1
  <2> HIDE DEF O
  <2> QED BY <2>1, <2>2
<1> QED BY <1>2 DEF IInv, SendQuery, EndsAgree, AnswersInOrder, ControlReflects

\* The rest of the orders are orders.
LEMMA OrdersLeft ==
  ASSUME NEW S, NEW s \in Seq(S), s # <<>>
  PROVE  /\ Tail(s) \in Seq(S) /\ Head(s) \in S /\ Len(s) \in Nat /\ Len(s) > 0
         /\ Len(Tail(s)) = Len(s) - 1 /\ Head(s) = s[1]
         /\ \A k \in 1 .. Len(s) - 1 : Tail(s)[k] = s[k + 1]
         /\ \A k \in 1 .. Len(s) : s[k] \in S
<1>1. Len(s) # 0
  BY NoElements
<1> QED BY <1>1

\* The answer is made from the slave's configuration, the latest there is.
LEMMA AnswerQueryKeeps == IInv /\ AnswerQuery => IInv'
<1> SUFFICES ASSUME IInv, AnswerQuery PROVE IInv'
  OBVIOUS
<1> DEFINE r == Response(slave)
<1>1. up' = Append(up, r) /\ down' = Tail(down) /\ master' = master /\ slave' = slave /\ down # <<>>
  BY DEF AnswerQuery, Response
<1>2. r \in Answers /\ r.meant = slave
  <2>1. slave \in Configurations /\ Orderly(slave)
    BY DEF IInv, EndsAgree, Orderly
  <2>2. r \in Answers
    BY <2>1 DEF Answers
  <2>3. r.meant = slave
    BY DEF Response, Message
  <2> QED BY <2>2, <2>3
<1>3. Before(slave, slave) /\ Before(master, slave)
  BY BeforeItself DEF IInv, EndsAgree, Orderly
<1>4. AnswersInOrder'
  <2> HIDE DEF r
  <2>1. up \in Seq(Answers)
    BY DEF IInv, AnswersInOrder
  <2>2. /\ Append(up, r) \in Seq(Answers) /\ Len(Append(up, r)) = Len(up) + 1 /\ Len(up) \in Nat
        /\ \A i \in 1 .. Len(up) : Append(up, r)[i] = up[i]
        /\ Append(up, r)[Len(up) + 1] = r
    BY <1>2, <2>1, OneMore
  <2>3. /\ \A k \in 1 .. Len(up) : Before(master, up[k].meant) /\ Before(up[k].meant, slave)
        /\ \A j, k \in 1 .. Len(up) : j < k => Before(up[j].meant, up[k].meant)
    BY DEF IInv, AnswersInOrder
  <2>4. \A k \in 1 .. Len(up') : Before(master, up'[k].meant) /\ Before(up'[k].meant, slave)
    <3> TAKE k \in 1 .. Len(up')
    <3>1. CASE k \in 1 .. Len(up)
      BY <1>1, <2>2, <2>3, <3>1
    <3>2. CASE k = Len(up) + 1
      BY <1>1, <1>2, <1>3, <2>2, <3>2
    <3> QED BY <1>1, <2>2, <3>1, <3>2
  <2>5. \A j, k \in 1 .. Len(up') : j < k => Before(up'[j].meant, up'[k].meant)
    <3> TAKE j, k \in 1 .. Len(up')
    <3> HAVE j < k
    <3>1. j \in 1 .. Len(up)
      BY <1>1, <2>2
    <3>2. CASE k \in 1 .. Len(up)
      BY <1>1, <2>2, <2>3, <3>1, <3>2
    <3>3. CASE k = Len(up) + 1
      BY <1>1, <1>2, <2>2, <2>3, <3>1, <3>3
    <3> QED BY <1>1, <2>2, <3>2, <3>3
  <2> QED BY <1>1, <2>2, <2>4, <2>5 DEF AnswersInOrder
<1>5. down' \in Seq(OrdersFor(master'))
  BY <1>1, OrdersLeft DEF IInv
<1> QED BY <1>4, <1>5 DEF IInv, AnswerQuery, EndsAgree, ControlReflects

\* The master's configuration becomes the oldest one on its way, unless it is
\* damaged: orders made from the former one stay valid.
LEMMA ReceiveConfigurationKeeps == IInv /\ ReceiveConfiguration => IInv'
<1> SUFFICES ASSUME IInv, ReceiveConfiguration PROVE IInv'
  OBVIOUS
<1> DEFINE m == up[1]
<1>1. /\ up # <<>> /\ up' = Tail(up) /\ slave' = slave /\ down' = down
      /\ Head(up) = m /\ up \in Seq(Answers)
  BY OrdersLeft DEF IInv, AnswersInOrder, ReceiveConfiguration
<1>2. /\ Len(up) \in Nat /\ Len(up) > 0 /\ up' \in Seq(Answers) /\ Len(up') = Len(up) - 1
      /\ \A k \in 1 .. Len(up') : up'[k] = up[k + 1]
      /\ \A k \in 1 .. Len(up) : up[k] \in Answers
  <2>1. /\ Tail(up) \in Seq(Answers) /\ Len(up) \in Nat /\ Len(up) > 0
        /\ Len(Tail(up)) = Len(up) - 1
        /\ \A k \in 1 .. Len(up) - 1 : Tail(up)[k] = up[k + 1]
        /\ \A k \in 1 .. Len(up) : up[k] \in Answers
    BY <1>1, OrdersLeft
  <2> QED BY <1>1, <2>1
<1>3. /\ \A k \in 1 .. Len(up) : Before(master, up[k].meant) /\ Before(up[k].meant, slave)
      /\ \A j, k \in 1 .. Len(up) : j < k => Before(up[j].meant, up[k].meant)
  BY DEF IInv, AnswersInOrder
<1>4. CASE ~checksum_ok(m)
  <2>1. master' = master /\ control' = control /\ asked' = asked
    BY <1>1, <1>4 DEF ReceiveConfiguration
  <2>2. AnswersInOrder'
    <3>1. \A k \in 1 .. Len(up') : Before(master, up'[k].meant) /\ Before(up'[k].meant, slave)
      BY <1>2, <1>3
    <3>2. \A j, k \in 1 .. Len(up') : j < k => Before(up'[j].meant, up'[k].meant)
      BY <1>2, <1>3
    <3> QED BY <1>1, <1>2, <2>1, <3>1, <3>2 DEF AnswersInOrder
  <2> QED BY <1>1, <2>1, <2>2 DEF IInv, EndsAgree, ControlReflects
<1>5. CASE checksum_ok(m)
  <2>1. /\ Orderly(m.meant) /\ m.meant \in Configurations
        /\ DecodeConfiguration(m.body) = [modules |-> m.meant.modules, next_module_id |-> 0]
    BY <1>2, <1>5, AnswerIs
  <2>2. /\ master' = [modules |-> m.meant.modules, next_module_id |-> 0]
        /\ control' = NoControl /\ asked' = Nothing
    BY <1>1, <1>5, <2>1 DEF ReceiveConfiguration
  <2>3. Orderly(master')
    BY <2>1, <2>2 DEF Orderly, Configurations
  <2>4. \A c : Before(master', c) <=> Before(m.meant, c)
    BY <2>2 DEF Before
  <2>5. Before(master, master') /\ Before(master', slave)
    <3>1. Before(master, m.meant) /\ Before(m.meant, slave)
      BY <1>2, <1>3
    <3>2. Before(master, master') <=> Before(master, m.meant)
      BY <2>2 DEF Before
    <3> QED BY <2>4, <3>1, <3>2
  <2>6. AnswersInOrder'
    <3>1. \A k \in 1 .. Len(up') : Before(master', up'[k].meant) /\ Before(up'[k].meant, slave)
      BY <1>2, <1>3, <2>4
    <3>2. \A j, k \in 1 .. Len(up') : j < k => Before(up'[j].meant, up'[k].meant)
      BY <1>2, <1>3
    <3> QED BY <1>1, <1>2, <3>1, <3>2 DEF AnswersInOrder
  <2>7. down' \in Seq(OrdersFor(master'))
    <3>1. OrdersFor(master) \subseteq OrdersFor(master')
      BY <2>3, <2>5, OrdersLast DEF IInv, EndsAgree
    <3>2. \A S, T : S \subseteq T => Seq(S) \subseteq Seq(T)
      OBVIOUS
    <3> QED BY <1>1, <3>1, <3>2 DEF IInv
  <2> QED BY <1>1, <2>2, <2>3, <2>5, <2>6, <2>7 DEF IInv, EndsAgree, ControlReflects
<1> QED BY <1>4, <1>5

\* Calls on a control leave the rest of the link as it is.
LEMMA ControlKeeps ==
  ASSUME IInv, MasterUnchanged, Serves(control', asked', master)
  PROVE  IInv'
<1>1. ControlReflects'
  BY DEF ControlReflects, MasterUnchanged
<1> QED BY <1>1 DEF IInv, MasterUnchanged, EndsAgree, AnswersInOrder

\* A control begins with nothing set, for a module of the configuration.
LEMMA NewControlReflects ==
  ASSUME NEW m \in 1 .. Len(master.modules), Orderly(master)
  PROVE  /\ Serves(NewControl(m), AskFor(m, FALSE), master)
         /\ Serves(ResetControl(m), AskFor(m, TRUE), master)
<1>1. /\ m \in Nat /\ master.modules[m] \in Modules /\ master.modules[m].id = m - 1
      /\ m - 1 \in Nat
  BY DEF Orderly, Configurations
<1>2. master.modules[m].name \in Names \cup {NoName}
  BY <1>1 DEF Modules
<1> DEFINE c == [module_id |-> m - 1, input_ids |-> {}, module |-> m, values |-> <<>>]
           r == [module_id |-> 0, input_ids |-> {}, module |-> m, values |-> <<>>]
           a(b) == [module |-> [id |-> m - 1, name |-> master.modules[m].name], values |-> {},
                    cleared |-> {}, reset |-> b]
           k(b) == [module |-> [id |-> m - 1, name |-> master.modules[m].name], values |-> {},
                    cleared |-> {}, read |-> {}, clears |-> FALSE, reset |-> b]
<1>3. NewControl(m) = c /\ ResetControl(m) = r
  BY <1>1 DEF NewControl, ResetControl, EmptyControl
<1>4. AskFor(m, FALSE) = k(FALSE) /\ AskFor(m, TRUE) = k(TRUE)
  BY <1>1 DEF AskFor, Asking
<1>5. c \in Controls /\ r \in Controls /\ a(FALSE) \in Sayings /\ a(TRUE) \in Sayings
  <2>1. <<>> \in Seq(Pairs) /\ {} \in SUBSET (0 .. ClearBit)
    OBVIOUS
  <2> QED BY <1>1, <1>2, <2>1 DEF Controls, Sayings
<1>6. InOrder(<<>>) /\ ToSet(<<>>) = {} /\ DOMAIN <<>> = {} /\ Len(<<>>) = 0
  BY DEF InOrder, ToSet
<1>7. Reflects(c, a(FALSE), master)
  BY <1>5, <1>6 DEF Reflects, PairsFit, SaysWhat
<1>8. Reflects(r, a(TRUE), master)
  BY <1>5, <1>6 DEF Reflects, PairsFit, SaysWhat
<1>9. ASSUME NEW b \in BOOLEAN
      PROVE  k(b) \in Askings /\ Does(a(b), k(b)) /\ a(b).reset = k(b).reset /\ ~k(b).clears
  BY <1>1, <1>2 DEF Askings, Does
<1>10. c.input_ids = {} /\ r.input_ids = {}
  OBVIOUS
<1> HIDE DEF c, r, a, k
<1>11. Serves(c, k(FALSE), master) /\ Serves(r, k(TRUE), master)
  BY <1>5, <1>7, <1>8, <1>9, <1>10 DEF Serves
<1> QED BY <1>3, <1>4, <1>11

\* A control is begun or reset.
LEMMA BeginKeeps == IInv /\ (Begin \/ Reset) => IInv'
<1> SUFFICES ASSUME IInv, Begin \/ Reset PROVE IInv'
  OBVIOUS
<1>1. Orderly(master) /\ DOMAIN master.modules = 1 .. Len(master.modules)
  BY DEF IInv, EndsAgree, Orderly, Configurations
<1>2. CASE Begin
  <2>1. PICK m \in DOMAIN master.modules : control' = NewControl(m) /\ asked' = AskFor(m, FALSE)
    BY <1>2 DEF Begin
  <2>2. Serves(control', asked', master)
    BY <1>1, <2>1, NewControlReflects
  <2> QED BY <1>2, <2>2, ControlKeeps DEF Begin
<1>3. CASE Reset
  <2>1. PICK m \in DOMAIN master.modules : control' = ResetControl(m) /\ asked' = AskFor(m, TRUE)
    BY <1>3 DEF Reset
  <2>2. Serves(control', asked', master)
    BY <1>1, <2>1, NewControlReflects
  <2> QED BY <1>3, <2>2, ControlKeeps DEF Reset
<1> QED BY <1>2, <1>3

\* While a module is set, the control does what was asked.
LEMMA BuildingReflects ==
  ASSUME IInv, control.module # Null
  PROVE  Orderly(master) /\ Serves(control, asked, master)
BY DEF IInv, EndsAgree, ControlReflects, NoControl, EmptyControl, Null

\* A value is set.
LEMMA SetValueKeeps == IInv /\ SetValue => IInv'
<1> SUFFICES ASSUME IInv, SetValue PROVE IInv'
  OBVIOUS
<1>1. PICK input \in InputsOfControl, v \in Values :
        control' = set(control, input, v) /\ asked' = AskValue(input, v)
  BY DEF SetValue
<1>2. Orderly(master) /\ Serves(control, asked, master)
  BY BuildingReflects DEF SetValue
<1>3. PICK says \in Sayings :
        Reflects(control, says, master) /\ says.reset = asked.reset /\ Does(says, asked)
  BY <1>2 DEF Serves
<1>4. control.module \in 1 .. Len(master.modules)
  BY <1>3 DEF Reflects
<1>5. input \in Inputs /\ input.input_id \in Nat
  <2>1. input \in Inputs
    BY <1>1, <1>2, <1>4, InputIsThere DEF InputsOfControl
  <2> QED BY <2>1 DEF Inputs
<1>6. asked \in Askings /\ (asked.clears <=> is_clear(control))
  BY <1>2 DEF Serves, is_clear
<1> DEFINE t == Answered(control, says, input, v)
<1>7. Reflects(control', t, master) /\ (ClearBit \in control'.input_ids <=> ClearBit \in control.input_ids)
  BY <1>1, <1>2, <1>3, SetReflects DEF InputsOfControl
<1>8. t \in Sayings /\ t.reset = says.reset
  BY <1>7 DEF Reflects, Answered, Sayings
<1> DEFINE values == {p \in asked.values : p.input # input} \cup {[input |-> input, value |-> v]}
           cleared == asked.cleared \ {input.input_id}
<1>9. asked' = [asked EXCEPT !.values = values, !.cleared = cleared]
  BY <1>1 DEF AskValue
<1>10. values \in SUBSET Pairs /\ cleared \in SUBSET Nat
  BY <1>5, <1>6 DEF Askings, Pairs
<1> HIDE DEF values, cleared
<1>11. /\ asked' \in Askings
       /\ asked'.module = asked.module /\ asked'.read = asked.read /\ asked'.reset = asked.reset
       /\ asked'.clears = asked.clears /\ asked'.values = values /\ asked'.cleared = cleared
  BY <1>6, <1>9, <1>10 DEF Askings
<1>12. Does(t, asked')
  BY <1>3, <1>5, <1>6, <1>11, DoesSet DEF values, cleared
<1> HIDE DEF t
<1>13. Serves(control', asked', master)
  BY <1>3, <1>6, <1>7, <1>8, <1>11, <1>12 DEF Serves, is_clear
<1> QED BY <1>13, ControlKeeps DEF SetValue

\* A value is read, and added when there is none.
LEMMA GetValueKeeps == IInv /\ GetValue => IInv'
<1> SUFFICES ASSUME IInv, GetValue PROVE IInv'
  OBVIOUS
<1>1. PICK input \in InputsOfControl :
        /\ control' = value_for(control, input)
        /\ asked' = AskRead(input)
  BY DEF GetValue
<1>2. Orderly(master) /\ Serves(control, asked, master)
  BY BuildingReflects DEF GetValue
<1>3. PICK says \in Sayings :
        Reflects(control, says, master) /\ says.reset = asked.reset /\ Does(says, asked)
  BY <1>2 DEF Serves
<1>4. control.module \in 1 .. Len(master.modules)
  BY <1>3 DEF Reflects
<1>5. input \in Inputs
  BY <1>1, <1>2, <1>4, InputIsThere DEF InputsOfControl
<1>6. asked \in Askings /\ (asked.clears <=> is_clear(control))
  BY <1>2 DEF Serves, is_clear
<1> DEFINE read == asked.read \cup {input}
<1>7. asked' = [asked EXCEPT !.read = read]
  BY <1>1 DEF AskRead
<1>8. read \in SUBSET Inputs
  BY <1>5, <1>6 DEF Askings
<1> HIDE DEF read
<1>9. /\ asked' \in Askings
      /\ asked'.module = asked.module /\ asked'.read = read /\ asked'.reset = asked.reset
      /\ asked'.clears = asked.clears /\ asked'.values = asked.values
      /\ asked'.cleared = asked.cleared
  BY <1>6, <1>7, <1>8 DEF Askings
<1>10. CASE input.input_id \in control.input_ids
  <2>1. control' = control
    BY <1>1, <1>10 DEF value_for
  <2>2. Does(says, asked')
    BY <1>3, <1>9 DEF Does, read
  <2>3. Serves(control', asked', master)
    BY <1>3, <1>6, <1>9, <2>1, <2>2 DEF Serves, is_clear
  <2> QED BY <2>3, ControlKeeps DEF GetValue
<1>11. CASE input.input_id \notin control.input_ids
  <2> DEFINE t == Answered(control, says, input, Zero)
  <2>1. control' = AddPair(control, input)
    BY <1>1, <1>11 DEF value_for
  <2>2. /\ Reflects(control', t, master)
        /\ ClearBit \in control'.input_ids <=> ClearBit \in control.input_ids
    BY <1>1, <1>2, <1>3, <1>11, <2>1, AddPairReflects DEF InputsOfControl
  <2>3. t \in Sayings /\ t.reset = says.reset
    BY <2>2 DEF Reflects, Answered, Sayings
  <2>4. \A p \in says.values : p.input # input
    <3>1. CASE ClearBit \in control.input_ids
      BY <1>2, <1>3, <3>1, ReflectsIs
    <3>2. CASE ClearBit \notin control.input_ids
      <4>1. says.values = ToSet(control.values)
        BY <1>2, <1>3, <3>2, ReflectsIs
      <4> QED BY <1>2, <1>3, <1>11, <4>1, PairReflects
    <3> QED BY <3>1, <3>2
  <2>5. Does(t, asked')
    BY <1>3, <1>5, <1>6, <1>9, <2>4, DoesRead DEF read
  <2> HIDE DEF t
  <2>6. Serves(control', asked', master)
    BY <1>3, <1>6, <1>9, <2>2, <2>3, <2>5 DEF Serves, is_clear
  <2> QED BY <2>6, ControlKeeps DEF GetValue
<1> QED BY <1>10, <1>11

\* Inputs are cleared, by a name the module has or not.
LEMMA ClearKeeps == IInv /\ (Clear \/ ClearUnknown) => IInv'
<1> SUFFICES ASSUME IInv, Clear \/ ClearUnknown PROVE IInv'
  OBVIOUS
<1>1. /\ Orderly(master) /\ Serves(control, asked, master) /\ get_num_values(control) = 0
      /\ MasterUnchanged
  BY BuildingReflects DEF Clear, ClearUnknown
<1>2. PICK says \in Sayings :
        Reflects(control, says, master) /\ says.reset = asked.reset /\ Does(says, asked)
  BY <1>1 DEF Serves
<1>3. control.module \in 1 .. Len(master.modules)
  BY <1>2 DEF Reflects
<1>4. asked \in Askings /\ (asked.clears <=> is_clear(control))
  BY <1>1 DEF Serves, is_clear
<1>5. PICK inputs \in SUBSET InputsOfControl :
        LET ids == {i.input_id : i \in inputs}
        IN  /\ control' = [control EXCEPT !.input_ids = @ \cup {ClearBit} \cup ids]
            /\ asked' = AskClear(inputs)
  <2>1. CASE Clear
    <3>1. PICK input \in InputsOfControl :
            /\ control' = [control EXCEPT !.input_ids = @ \cup {ClearBit, input.input_id}]
            /\ asked' = AskClear({input})
      BY <2>1 DEF Clear
    <3>2. {i.input_id : i \in {input}} = {input.input_id}
      OBVIOUS
    <3>3. control.input_ids \cup {ClearBit, input.input_id}
            = control.input_ids \cup {ClearBit} \cup {input.input_id}
      OBVIOUS
    <3>4. {input} \in SUBSET InputsOfControl
      OBVIOUS
    <3> QED BY <3>1, <3>2, <3>3, <3>4
  <2>2. CASE ClearUnknown
    <3>1. /\ control' = [control EXCEPT !.input_ids = @ \cup {ClearBit}]
          /\ asked' = AskClear({})
      BY <2>2 DEF ClearUnknown
    <3>2. {i.input_id : i \in {}} = {}
      OBVIOUS
    <3>3. control.input_ids \cup {ClearBit} = control.input_ids \cup {ClearBit} \cup {}
      OBVIOUS
    <3>4. {} \in SUBSET InputsOfControl
      OBVIOUS
    <3> QED BY <3>1, <3>2, <3>3, <3>4
  <2> QED BY <2>1, <2>2
<1> DEFINE ids == {i.input_id : i \in inputs}
           t == [says EXCEPT !.cleared = @ \cup ids]
<1>6. /\ inputs \in SUBSET Inputs /\ ids \in SUBSET (0 .. ClearBit) /\ ClearBit \notin ids
      /\ ids \in SUBSET Nat
  <2>1. \A i \in inputs : i \in Inputs /\ i.input_id \in 0 .. ClearBit /\ i.input_id # ClearBit
    BY <1>1, <1>3, <1>5, InputIsThere DEF InputsOfControl
  <2>2. \A i \in Inputs : i.input_id \in Nat
    BY DEF Inputs
  <2> QED BY <2>1, <2>2
<1>7. control' = [control EXCEPT !.input_ids = @ \cup {ClearBit} \cup ids] /\ asked' = AskClear(inputs)
  BY <1>5
<1> HIDE DEF ids
<1>8. /\ Reflects(control', t, master)
      /\ says.values = {} /\ (ClearBit \notin control.input_ids => says.cleared = {})
  BY <1>1, <1>2, <1>6, <1>7, ClearReflects
<1>9. t \in Sayings /\ t.reset = says.reset
  BY <1>8 DEF Reflects, Sayings
<1>10. ClearBit \in control'.input_ids
  BY <1>1, <1>2, <1>7, ReflectsIs
<1> DEFINE values == {p \in asked.values : p.input \notin inputs}
           cleared == asked.cleared \cup ids
<1>11. asked' = [asked EXCEPT !.values = values, !.cleared = cleared, !.clears = TRUE]
  BY <1>7 DEF AskClear, ids
<1>12. values \in SUBSET Pairs /\ cleared \in SUBSET Nat
  BY <1>4, <1>6 DEF Askings
<1> HIDE DEF values, cleared
<1>13. /\ asked' \in Askings
       /\ asked'.module = asked.module /\ asked'.read = asked.read /\ asked'.reset = asked.reset
       /\ asked'.clears /\ asked'.values = values /\ asked'.cleared = cleared
  BY <1>4, <1>11, <1>12 DEF Askings
<1>14. Does(t, asked')
  BY <1>2, <1>4, <1>6, <1>8, <1>13, DoesClear DEF values, cleared, ids, is_clear
<1> HIDE DEF t
<1>15. Serves(control', asked', master)
  BY <1>2, <1>8, <1>9, <1>10, <1>13, <1>14 DEF Serves
<1> QED BY <1>1, <1>15, ControlKeeps

\* The control is sent as it is.
LEMMA SendControlKeeps == IInv /\ SendControl => IInv'
<1> SUFFICES ASSUME IInv, SendControl PROVE IInv'
  OBVIOUS
<1>1. Serves(control, asked, master)
  BY BuildingReflects DEF SendControl
<1> DEFINE O == OrdersFor(master)
           m == ControlSent(control, asked)
<1>2. m \in O /\ down' = Append(down, m) /\ master' = master /\ down \in Seq(O)
  BY <1>1, ControlIsOrder DEF IInv, SendControl, ControlSent
<1>3. OrdersFor(master') = O
  BY <1>2
<1> HIDE DEF O, m
<1>4. down' \in Seq(OrdersFor(master'))
  BY <1>2, <1>3
<1> QED
  BY <1>4 DEF IInv, SendControl, EndsAgree, AnswersInOrder, ControlReflects

\* The slave decodes a control with a configuration that may be later than the
\* master's.
LEMMA ReceiveControlKeeps == IInv /\ ReceiveControl => IInv'
<1> SUFFICES ASSUME IInv, ReceiveControl PROVE IInv'
  OBVIOUS
<1> DEFINE O == OrdersFor(master)
           m == Head(down)
<1>1. /\ down \in Seq(O) /\ down # <<>> /\ down' = Tail(down) /\ master' = master /\ slave' = slave
      /\ m.type = "MODULE_CONTROL"
      /\ Orderly(master) /\ Orderly(slave) /\ Before(master, slave)
  BY DEF IInv, EndsAgree, ReceiveControl
<1>2. m \in O /\ Tail(down) \in Seq(O)
  <2> HIDE DEF O
  <2> QED BY <1>1, OrdersLeft
<1>3. down' \in Seq(OrdersFor(master'))
  BY <1>1, <1>2
<1> QED
  BY <1>3 DEF IInv, ReceiveControl, EndsAgree, AnswersInOrder, ControlReflects

\* One element of a sequence is replaced.
LEMMA Replaced ==
  ASSUME NEW S, NEW s \in Seq(S), NEW n \in DOMAIN s, NEW x \in S
  PROVE  LET t == [s EXCEPT ![n] = x]
         IN  t \in Seq(S) /\ Len(t) = Len(s)
             /\ \A k \in 1 .. Len(s) : t[k] = IF k = n THEN x ELSE s[k]
OBVIOUS

\* A message is damaged on its way.
LEMMA DamageKeeps == IInv /\ DamageMessage => IInv'
<1> SUFFICES ASSUME IInv, DamageMessage PROVE IInv'
  OBVIOUS
<1>1. UNCHANGED <<slave, master, control, asked, deaf>>
  BY DEF DamageMessage
<1>2. ASSUME NEW n \in DOMAIN down, down' = [down EXCEPT ![n] = Damage(@)], up' = up
      PROVE  IInv'
  <2> DEFINE O == OrdersFor(master)
             x == Damage(down[n])
  <2>1. down \in Seq(O) /\ down' = [down EXCEPT ![n] = x]
    BY <1>2 DEF IInv
  <2>2. down[n] \in O
    <3> HIDE DEF O
    <3> QED BY <2>1, <1>2
  <2>3. x \in O
    BY <2>2, OrderIs DEF IInv, EndsAgree
  <2>4. down' \in Seq(O)
    <3> HIDE DEF O, x
    <3> QED BY <2>1, <2>3, <1>2, Replaced
  <2>5. OrdersFor(master') = O
    BY <1>1
  <2> HIDE DEF O
  <2> QED
    BY <1>1, <1>2, <2>4, <2>5 DEF IInv, EndsAgree, AnswersInOrder, ControlReflects
<1>3. ASSUME NEW n \in DOMAIN up, up' = [up EXCEPT ![n] = Damage(@)], down' = down
      PROVE  IInv'
  <2> DEFINE x == Damage(up[n])
  <2>1. up \in Seq(Answers) /\ up' = [up EXCEPT ![n] = x]
    BY <1>3 DEF IInv, AnswersInOrder
  <2>2. up[n] \in Answers /\ Len(up) \in Nat
    BY <2>1, <1>3
  <2>3. x \in Answers /\ x.meant = up[n].meant
    BY <2>2, AnswerIs
  <2> HIDE DEF x
  <2>4. /\ up' \in Seq(Answers) /\ Len(up') = Len(up)
        /\ \A k \in 1 .. Len(up) : up'[k] = IF k = n THEN x ELSE up[k]
    BY <2>1, <2>3, <1>3, Replaced
  <2>5. \A k \in 1 .. Len(up) : up'[k].meant = up[k].meant
    BY <2>3, <2>4
  <2>6. AnswersInOrder'
    BY <1>1, <2>4, <2>5 DEF IInv, AnswersInOrder
  <2> QED BY <1>1, <1>3, <2>6 DEF IInv, EndsAgree, ControlReflects
<1> QED BY <1>2, <1>3 DEF DamageMessage

\* Nothing is declared at first.
LEMMA InitEstablishes == Init => IInv
<1> SUFFICES ASSUME Init PROVE IInv
  OBVIOUS
<1>1. (\A S : <<>> \in Seq(S)) /\ Len(<<>>) = 0 /\ 1 .. 0 = {}
  OBVIOUS
<1>2. NoConfiguration \in Configurations
  BY <1>1 DEF NoConfiguration, Configurations
<1>3. Orderly(NoConfiguration)
  BY <1>1, <1>2 DEF Orderly, NoConfiguration
<1>4. EndsAgree
  BY <1>1, <1>2, <1>3, BeforeItself DEF Init, EndsAgree, NoConfiguration
<1>5. AnswersInOrder
  <2>1. up \in Seq(Answers) /\ Len(up) = 0
    BY <1>1 DEF Init
  <2> QED BY <2>1 DEF AnswersInOrder
<1>6. ControlReflects
  BY DEF Init, ControlReflects
<1>7. down \in Seq(OrdersFor(master))
  BY <1>1 DEF Init
<1> QED BY <1>4, <1>5, <1>6, <1>7 DEF IInv

\* Every step keeps the invariant.
LEMMA NextKeeps == IInv /\ [Next]_vars => IInv'
<1> SUFFICES ASSUME IInv, [Next]_vars PROVE IInv'
  OBVIOUS
<1>1. CASE UNCHANGED vars
  BY <1>1 DEF vars, IInv, EndsAgree, AnswersInOrder, ControlReflects
<1>2. CASE AddModule \/ AddInput \/ AddSensor
  BY <1>2, AddModuleKeeps, AddInputKeeps, AddSensorKeeps
<1>3. CASE SendQuery \/ AnswerQuery \/ ReceiveConfiguration
  BY <1>3, SendQueryKeeps, AnswerQueryKeeps, ReceiveConfigurationKeeps
<1>4. CASE Begin \/ Reset \/ SetValue \/ GetValue \/ Clear \/ ClearUnknown
  BY <1>4, BeginKeeps, SetValueKeeps, GetValueKeeps, ClearKeeps
<1>5. CASE SendControl \/ ReceiveControl \/ DamageMessage
  BY <1>5, SendControlKeeps, ReceiveControlKeeps, DamageKeeps
<1> QED BY <1>1, <1>2, <1>3, <1>4, <1>5 DEF Next

\* The configurations of the two ends agree, what is on its way was made from
\* them, and the control being built does what was asked.
THEOREM LinkInvariant == Spec => []IInv
<1>1. Init => IInv
  BY InitEstablishes
<1>2. IInv /\ [Next]_vars => IInv'
  BY NextKeeps
<1> QED BY <1>1, <1>2, PTL DEF Spec

-----------------------------------------------------------------------------
(* What follows from the invariant. *)

\* What ToSet() holds of a sequence.
LEMMA MembersAre == \A S : \A s \in Seq(S) : ToSet(s) \subseteq S
BY DEF ToSet

\* A prefix by its elements is one by SubSeq.
LEMMA PrefixBySteps ==
  \A S : \A s, t \in Seq(S) : SameUpTo(s, t) => IsPrefix(s, t)
<1> SUFFICES ASSUME NEW S, NEW s \in Seq(S), NEW t \in Seq(S), SameUpTo(s, t)
             PROVE  IsPrefix(s, t)
  OBVIOUS
<1> DEFINE n == Len(s)
<1>1. n \in Nat /\ Len(t) \in Nat /\ n <= Len(t) /\ \A i \in 1 .. n : t[i] = s[i]
  BY DEF SameUpTo
<1>2. SubSeq(s, 1, n) = [i \in 1 .. n |-> s[i]] /\ SubSeq(t, 1, n) = [i \in 1 .. n |-> t[i]]
  BY <1>1
<1> QED BY <1>1, <1>2 DEF IsPrefix

\* What is on its way, in both directions, has the length that its header says
\* and lacks none of its writes (SizesExact): get_encoded_size() of every
\* configuration and control agrees with what encode() writes.
THEOREM SizesAreExact == Spec => []SizesExact
<1>1. IInv => SizesExact
  <2> SUFFICES ASSUME IInv, NEW m \in ToSet(down) \cup ToSet(up)
               PROVE  /\ Len(m.body) = m.writes
                      /\ m.length = SizeOf(m.body)
                           + (IF has_checksum(m.type) THEN MESSAGE_CHECKSUM_SIZE ELSE 0)
    BY DEF SizesExact, SizeOf
  <2>1. Orderly(master) /\ ToSet(down) \subseteq OrdersFor(master) /\ ToSet(up) \subseteq Answers
    BY MembersAre DEF IInv, EndsAgree, AnswersInOrder
  <2>2. CASE m \in ToSet(down)
    BY <2>1, <2>2, OrderIs
  <2>3. CASE m \in ToSet(up)
    BY <2>1, <2>3, AnswerIs
  <2> QED BY <2>2, <2>3
<1> QED BY <1>1, LinkInvariant, PTL

\* Modules, inputs and sensors are found by position at both ends, also after a
\* decode (IdsArePositions).
THEOREM PositionsAreIds == Spec => []IdsArePositions
<1>1. ASSUME NEW c, Orderly(c), NEW k \in DOMAIN c.modules
      PROVE  LET m == c.modules[k]
             IN  /\ m.id = k - 1
                 /\ \A i \in DOMAIN m.inputs : m.inputs[i].input_id = i - 1
                 /\ \A i \in DOMAIN m.sensors : m.sensors[i].id = i - 1
                 /\ m.next_input_id = Len(m.inputs)
                 /\ m.next_sensor_id = Len(m.sensors)
  <2> DEFINE m == c.modules[k]
  <2>1. k \in 1 .. Len(c.modules) /\ m \in Modules
    BY <1>1 DEF Orderly, Configurations
  <2>2. Numbered(m) /\ m.id = k - 1
    BY <1>1, <2>1 DEF Orderly
  <2>3. \A x \in Modules : DOMAIN x.inputs = 1 .. Len(x.inputs) /\ DOMAIN x.sensors = 1 .. Len(x.sensors)
    BY DEF Modules
  <2>4. DOMAIN m.inputs = 1 .. Len(m.inputs) /\ DOMAIN m.sensors = 1 .. Len(m.sensors)
    BY <2>1, <2>3
  <2> HIDE DEF m
  <2>5. /\ m.id = k - 1
        /\ \A i \in DOMAIN m.inputs : m.inputs[i].input_id = i - 1
        /\ \A i \in DOMAIN m.sensors : m.sensors[i].id = i - 1
        /\ m.next_input_id = Len(m.inputs)
        /\ m.next_sensor_id = Len(m.sensors)
    BY <2>2, <2>4 DEF Numbered
  <2> QED BY <2>5 DEF m
<1>2. IInv => IdsArePositions
  BY <1>1 DEF IInv, EndsAgree, IdsArePositions
<1> QED BY <1>2, LinkInvariant, PTL

\* Whatever the master knows the slave still has under the same identifiers, and
\* an answer that arrives whole decodes to the configuration it was made from
\* (MasterIsPrefix).
THEOREM MasterStaysPrefix == Spec => []MasterIsPrefix
<1>1. ASSUME IInv, NEW m \in ToSet(up), checksum_ok(m)
      PROVE  SameConfiguration(DecodeConfiguration(m.body), m.meant)
  <2>1. m \in Answers
    BY MembersAre, <1>1 DEF IInv, AnswersInOrder
  <2>2. DecodeConfiguration(m.body) = [modules |-> m.meant.modules, next_module_id |-> 0]
    BY <1>1, <2>1, AnswerIs
  <2> QED BY <2>2 DEF SameConfiguration, SameModule
<1>2. ASSUME IInv, NEW k \in DOMAIN master.modules
      PROVE  LET m == master.modules[k]
                 s == slave.modules[k]
             IN  /\ m.id = s.id /\ m.name = s.name
                 /\ IsPrefix(m.inputs, s.inputs)
                 /\ IsPrefix(m.sensors, s.sensors)
  <2> DEFINE m == master.modules[k]
             s == slave.modules[k]
  <2>1. Orderly(master) /\ Orderly(slave) /\ Before(master, slave)
    BY <1>2 DEF IInv, EndsAgree
  <2>2. /\ k \in 1 .. Len(master.modules) /\ k \in 1 .. Len(slave.modules)
        /\ m \in Modules /\ s \in Modules
    BY <1>2, <2>1 DEF Orderly, Configurations, Before
  <2>3. m.id = s.id
    BY <2>1, <2>2 DEF Orderly
  <2>4. m.name = s.name /\ SameUpTo(m.inputs, s.inputs) /\ SameUpTo(m.sensors, s.sensors)
    BY <2>1, <2>2 DEF Before
  <2>5. \A x \in Modules : x.inputs \in Seq(Inputs) /\ x.sensors \in Seq(Sensors)
    BY DEF Modules
  <2>6. IsPrefix(m.inputs, s.inputs) /\ IsPrefix(m.sensors, s.sensors)
    <3> HIDE DEF m, s
    <3> QED BY <2>2, <2>4, <2>5, PrefixBySteps
  <2> QED BY <2>3, <2>4, <2>6
<1>3. IInv => Len(master.modules) <= Len(slave.modules)
  BY DEF IInv, EndsAgree, Before
<1>4. IInv => MasterIsPrefix
  BY <1>1, <1>2, <1>3 DEF MasterIsPrefix
<1> QED BY <1>4, LinkInvariant, PTL

\* The pairs of a control are those of its mask, in the order in which decode()
\* reads them (PairsMatchMask).
THEOREM PairsFollowMask == Spec => []PairsMatchMask
<1>1. IInv => PairsMatchMask
  <2>1. ASSUME control = NoControl
        PROVE  PairsMatchMask
    <3>1. control.input_ids = {} /\ control.values = <<>> /\ DOMAIN <<>> = {}
      BY <2>1 DEF NoControl, EmptyControl
    <3>2. {control.values[k].input.input_id : k \in DOMAIN control.values} = {} /\ InOrder(control.values)
      BY <3>1 DEF InOrder
    <3> QED BY <3>1, <3>2 DEF PairsMatchMask
  <2>2. ASSUME Serves(control, asked, master)
        PROVE  PairsMatchMask
    <3>1. PICK says \in Sayings : Reflects(control, says, master)
      BY <2>2 DEF Serves
    <3> QED BY <3>1 DEF Reflects, SaysWhat, PairsMatchMask, is_clear
  <2> QED BY <2>1, <2>2 DEF IInv, ControlReflects
<1> QED BY <1>1, LinkInvariant, PTL

\* What is decoded of a control on its way, at either end.
LEMMA DecodesToWhatServes ==
  ASSUME IInv, NEW m \in ToSet(down), NEW conf \in {slave, master}, IsControl(m),
         ~m.meant.reset
  PROVE  Decodable(m.body, conf) /\ Does(DecodeControl(m.body, conf), m.meant)
<1>1. /\ Orderly(master) /\ Orderly(slave) /\ Before(master, slave)
      /\ m \in OrdersFor(master)
  BY MembersAre DEF IInv, EndsAgree
<1>2. PICK c, a : Serves(c, a, master) /\ m.body = EncodeControl(c) /\ m.meant = a
  BY <1>1, OrderIs DEF IsControl
<1>3. Orderly(conf) /\ Serves(c, a, conf)
  BY <1>1, <1>2, ServesLater
<1>4. PICK says \in Sayings : Reflects(c, says, conf) /\ says.reset = a.reset /\ Does(says, a)
  BY <1>3 DEF Serves
<1> DEFINE got == DecodeControl(EncodeControl(c), conf)
<1>5. /\ Decodable(EncodeControl(c), conf)
      /\ got.module = says.module /\ got.values = says.values /\ got.cleared = says.cleared
  BY <1>2, <1>3, <1>4, ControlApplies
<1> HIDE DEF got
<1>6. Does(got, a)
  BY <1>4, <1>5 DEF Does
<1> QED BY <1>2, <1>5, <1>6 DEF got

\* No assertion of ModuleControl::decode fails, at either end, for a control that
\* arrives whole and was not made with reset() (ControlsDecodable).
THEOREM ControlsCanBeDecoded == Spec => []ControlsDecodable
<1>1. IInv => ControlsDecodable
  BY DecodesToWhatServes DEF ControlsDecodable
<1> QED BY <1>1, LinkInvariant, PTL

\* What the slave decodes, with whatever it has declared by then, has every value
\* that the master's user set, or clears what was to be cleared; beyond that it
\* has only zeros of inputs that were looked at, or clears inputs that were
\* looked at or set after a clear() (AppliedAsAsked).
THEOREM SlaveAppliesWhatIsAsked == Spec => []AppliedAsAsked
<1>1. IInv => AppliedAsAsked
  BY DecodesToWhatServes DEF AppliedAsAsked
<1> QED BY <1>1, LinkInvariant, PTL

=============================================================================
