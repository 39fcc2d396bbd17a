--------------------------- MODULE Storage_proofs ---------------------------
(***************************************************************************)
(* Who owns which memory, for any number of arrays, buffers and blocks:    *)
(* no step of SArray, Buffer or RefCountedObject frees a block twice, lets *)
(* two objects own one, or loses what an array holds, as long as nothing   *)
(* was done to an object that its class does not survive.                  *)
(***************************************************************************)
EXTENDS Storage, SequenceTheorems, TLAPS

\* The loop of emplace() over the elements of another array (SArray.hh:194-195).
Loop == INSTANCE FoldLemmas WITH Op <- push

Cells == Values \cup {Byte, Garbage}

TypeOK ==
  /\ mem \in [Blocks \cup {UserBlock} -> [live : BOOLEAN, cells : Seq(Cells)]]
  /\ arr \in [Arrays -> [live : BOOLEAN, data : Blocks \cup {Null}, size : Nat, cap : Nat]]
  /\ buf \in [Buffers -> [live : BOOLEAN, data : Blocks \cup {UserBlock, Null},
                          length : Nat, owns : BOOLEAN, free : BOOLEAN]]
  /\ refs \in [Buffers -> Nat]
  /\ expect \in [Arrays -> Seq(Values)]
  /\ spoiled \subseteq Objects
  /\ fault \in [kind : {"none", "double", "null", "read", "held"}, of : Objects \cup {Null}]

\* The block an object has to free, if any.
Own(o) ==
  IF o \in Arrays THEN (IF arr[o].live THEN arr[o].data ELSE Null)
                  ELSE (IF buf[o].live /\ buf[o].owns THEN buf[o].data ELSE Null)

\* The memory of the caller is borrowed: never written, and never owned.
UserKept ==
  /\ mem[UserBlock] = Block(Times(Byte, MaxSize))
  /\ \A o \in Objects : Own(o) \in Blocks \cup {Null}

\* An object owns its block alone, and the block is allocated.
Exclusive ==
  /\ \A o \in Objects : Own(o) # Null => mem[Own(o)].live
  /\ \A o, p \in Objects : Own(o) # Null /\ Own(o) = Own(p) => o = p

\* An array that was not spoiled has memory for what it can hold, and holds
\* what it should.
ArraySound(x) ==
  arr[x].live /\ x \notin spoiled =>
    /\ arr[x].cap > 0 => arr[x].data # Null
    /\ arr[x].size <= arr[x].cap
    /\ Load(x).cells = expect[x]

\* A buffer that was not spoiled can be read, and freed if it owns.
BufferSound(b) ==
  buf[b].live /\ b \notin spoiled =>
    IF buf[b].owns
    THEN /\ buf[b].free /\ buf[b].data # Null
         /\ Len(mem[buf[b].data].cells) = buf[b].length
    ELSE /\ buf[b].data = IF buf[b].length = 0 THEN Null ELSE UserBlock
         /\ buf[b].length <= MaxSize

Sound ==
  fault = NoFault =>
    /\ Exclusive
    /\ \A x \in Arrays : ArraySound(x)
    /\ \A b \in Buffers : BufferSound(b)

\* A buffer that references are held to was not destroyed.
HeldIsAlive == fault = NoFault => \A b \in Buffers : refs[b] > 0 => buf[b].live

\* The inductive invariant.  Who owns what is needed to know that what is freed
\* was allocated and that nobody else's contents change; what the objects that
\* are not spoiled look like, that they find memory where they point.
IInv ==
  /\ TypeOK
  /\ UserKept
  /\ Sound
  /\ HeldIsAlive
  /\ OnlySpoiledFault
  /\ fault.kind # "double"

-----------------------------------------------------------------------------
(* An array in the making. *)

Making == [data : Blocks \cup {Null}, size : Nat, cap : Nat, cells : Seq(Cells),
           ok : BOOLEAN]

\* It has memory for what it can hold, and no null pointer was used.
Fit(l) ==
  /\ l.ok
  /\ l.cap > 0 => l.data # Null
  /\ l.data = Null => l.cells = <<>>
  /\ l.size <= l.cap

\* It keeps its memory, once it has some.
Keeps(r, l) == r.data = l.data \/ (l.data = Null /\ r.data = Fresh)

\* malloc returns an address that is not in use (SArray.hh:99-117, Buffer.cc:23-31).
LEMMA FreshIs ==
  ASSUME CanAllocate
  PROVE  Fresh \in Blocks /\ ~mem[Fresh].live /\ Fresh # Null /\ Fresh # UserBlock
<1>1. Fresh \in Blocks /\ ~mem[Fresh].live
  BY DEF CanAllocate, Fresh
<1> QED BY <1>1, StorageAssumption

\* n equal cells are a sequence of length n.
LEMMA TimesIs ==
  ASSUME NEW c \in Cells, NEW n \in Nat
  PROVE  Times(c, n) \in Seq(Cells) /\ Len(Times(c, n)) = n /\ (n = 0 => Times(c, n) = <<>>)
<1>1. Times(c, n) \in Seq(Cells) /\ Len(Times(c, n)) = n
  BY DEF Times
<1>2. n = 0 => Times(c, n) = <<>>
  BY <1>1, EmptySeq
<1> QED BY <1>1, <1>2

\* ensure_capacity (SArray.hh:99-117) gives the room it was asked for; what an
\* array that had no memory takes for its elements is garbage.
LEMMA EnsureIs ==
  ASSUME NEW l \in Making, NEW n \in Nat, CanAllocate
  PROVE  /\ ensure_capacity(l, n) \in Making
         /\ Keeps(ensure_capacity(l, n), l)
         /\ ensure_capacity(l, n).size = l.size
         /\ ensure_capacity(l, n).cap >= n
         /\ ensure_capacity(l, n).ok = l.ok
         /\ Fit(l) => /\ Fit(ensure_capacity(l, n))
                      /\ ensure_capacity(l, n).cells = l.cells
<1> DEFINE r == ensure_capacity(l, n)
<1>1. CASE l.cap >= n
  BY <1>1 DEF ensure_capacity, Keeps
<1>2. CASE ~(l.cap >= n)
  <2> DEFINE d == IF l.data = Null THEN Fresh ELSE l.data
             c == IF l.data = Null THEN Times(Garbage, l.size) ELSE l.cells
             m == IF l.cap > 0 THEN l.cap + 2 * (n - l.cap) ELSE n
  <2>1. r = [l EXCEPT !.cap = m, !.data = d, !.cells = c]
    BY <1>2 DEF ensure_capacity, Grown
  <2>2. l.size \in Nat /\ l.cap \in Nat /\ l.cells \in Seq(Cells) /\ l.ok \in BOOLEAN
        /\ l.data \in Blocks \cup {Null}
    BY DEF Making
  <2>3. m \in Nat /\ m >= n
    BY <1>2, <2>2
  <2>4. d \in Blocks /\ d # Null /\ (d = l.data \/ (l.data = Null /\ d = Fresh))
    BY <2>2, FreshIs, StorageAssumption
  <2>5. c \in Seq(Cells)
    BY <2>2, TimesIs DEF Cells
  <2> HIDE DEF m, d, c
  <2>6. /\ r.cap = m /\ r.data = d /\ r.cells = c /\ r.size = l.size /\ r.ok = l.ok
        /\ r \in Making
    BY <2>1, <2>2, <2>3, <2>4, <2>5 DEF Making
  <2>7. ASSUME Fit(l) PROVE Fit(r) /\ r.cells = l.cells
    <3>1. c = l.cells
      <4>1. CASE l.data = Null
        <5>1. l.size = 0 /\ l.cells = <<>>
          BY <2>2, <2>7, <4>1 DEF Fit
        <5> QED BY <4>1, <5>1, TimesIs DEF c, Cells
      <4>2. CASE l.data # Null
        BY <4>2 DEF c
      <4> QED BY <4>1, <4>2
    <3>2. l.size <= m
      BY <1>2, <2>2, <2>3, <2>7 DEF Fit
    <3> QED BY <2>4, <2>6, <2>7, <3>1, <3>2 DEF Fit
  <2> QED BY <2>3, <2>4, <2>6, <2>7 DEF Keeps
<1> QED BY <1>1, <1>2

\* push (SArray.hh:60-78) adds one element after those it has.
LEMMA PushIs ==
  ASSUME NEW l \in Making, NEW v \in Cells, CanAllocate
  PROVE  /\ push(l, v) \in Making
         /\ Keeps(push(l, v), l)
         /\ Fit(l) => /\ Fit(push(l, v))
                      /\ push(l, v).cells = Append(l.cells, v)
<1> DEFINE r == ensure_capacity(l, l.size + 1)
<1>0. l.size + 1 \in Nat
  BY DEF Making
<1>1. /\ r \in Making /\ Keeps(r, l) /\ r.size = l.size /\ r.cap >= l.size + 1
      /\ Fit(l) => Fit(r) /\ r.cells = l.cells
  BY <1>0, EnsureIs
<1>2. push(l, v) = IF r.data = Null THEN [r EXCEPT !.ok = FALSE]
                   ELSE [r EXCEPT !.size = @ + 1, !.cells = Append(@, v)]
  BY DEF push
<1> HIDE DEF r
<1>3. Append(r.cells, v) \in Seq(Cells) /\ r.size \in Nat /\ r.cap \in Nat /\ l.size \in Nat
  BY <1>1, AppendProperties DEF Making
<1>4. CASE r.data = Null
  <2>1. push(l, v) = [r EXCEPT !.ok = FALSE]
    BY <1>2, <1>4
  <2>2. push(l, v) \in Making /\ push(l, v).data = r.data
    BY <1>1, <2>1 DEF Making
  <2>3. ~Fit(l)
    BY <1>1, <1>3, <1>4 DEF Fit
  <2> QED BY <1>1, <2>2, <2>3 DEF Keeps
<1>5. CASE r.data # Null
  <2>1. push(l, v) = [r EXCEPT !.size = @ + 1, !.cells = Append(@, v)]
    BY <1>2, <1>5
  <2>2. /\ push(l, v) \in Making /\ push(l, v).data = r.data
        /\ push(l, v).size = r.size + 1 /\ push(l, v).cap = r.cap
        /\ push(l, v).ok = r.ok /\ push(l, v).cells = Append(r.cells, v)
    <3> DEFINE c == Append(r.cells, v)
               n == r.size + 1
    <3>1. c \in Seq(Cells) /\ n \in Nat
      BY <1>3
    <3>2. push(l, v) = [r EXCEPT !.size = n, !.cells = c]
      BY <2>1
    <3> HIDE DEF c, n
    <3>3. /\ push(l, v) \in Making /\ push(l, v).data = r.data
          /\ push(l, v).size = n /\ push(l, v).cap = r.cap
          /\ push(l, v).ok = r.ok /\ push(l, v).cells = c
      BY <1>1, <3>1, <3>2 DEF Making
    <3> QED BY <3>3 DEF c, n
  <2>3. Keeps(push(l, v), l)
    BY <1>1, <2>2 DEF Keeps
  <2>4. ASSUME Fit(l) PROVE Fit(push(l, v)) /\ push(l, v).cells = Append(l.cells, v)
    BY <1>1, <1>3, <1>5, <2>2, <2>4 DEF Fit
  <2> QED BY <2>2, <2>3, <2>4
<1> QED BY <1>4, <1>5

\* Copying one array's elements into another that is empty: a null pointer is
\* used when the source has none (SArray.hh:194, 215).
LEMMA EmplaceIs ==
  ASSUME NEW l \in Making, NEW s \in Making, CanAllocate
  PROVE  /\ EmplaceAll(l, s) \in Making
         /\ Keeps(EmplaceAll(l, s), l)
         /\ Fit(l) /\ l.cells = <<>> /\ Readable(s) =>
              Fit(EmplaceAll(l, s)) /\ EmplaceAll(l, s).cells = s.cells
<1>1. CASE ~Readable(s)
  <2>1. EmplaceAll(l, s) = [l EXCEPT !.ok = FALSE]
    BY <1>1 DEF EmplaceAll
  <2> QED BY <1>1, <2>1 DEF Making, Keeps
<1>2. CASE Readable(s)
  <2> DEFINE c == s.cells
             n == Len(c)
  <2>1. c \in Seq(Cells) /\ n \in Nat
    BY DEF Making
  <2>2. EmplaceAll(l, s) = Loop!Folded(l, c)
    BY <1>2 DEF EmplaceAll, Loop!Folded, FoldLeft, MapThenFoldSet, Max,
                Loop!MapThenFoldSet, Loop!Greatest
  <2> HIDE DEF c
  <2>3. PICK f : /\ f[0] = l
                 /\ \A k \in 1 .. Len(c) : f[k] = push(f[k - 1], c[k])
                 /\ Loop!Folded(l, c) = f[Len(c)]
    BY <2>1, Loop!FoldLeftSteps
  <2> DEFINE Good(k) == /\ f[k] \in Making
                        /\ Keeps(f[k], l)
                        /\ Fit(l) /\ l.cells = <<>> =>
                             Fit(f[k]) /\ f[k].cells = SubSeq(c, 1, k)
             T == {k \in 0 .. n : ~Good(k)}
  <2>4. \A k \in 0 .. n : Good(k)
    <3> SUFFICES ASSUME T # {} PROVE FALSE
      OBVIOUS
    <3>1. T \in SUBSET Nat
      BY <2>1
    <3> HIDE DEF T
    <3>2. PICK k \in T : \A m \in T : ~(m < k)
      BY <3>1, Loop!LeastOf
    <3> USE DEF T
    <3>3. k # 0
      <4>1. SubSeq(c, 1, 0) = <<>>
        BY <2>1, EmptySeq, SubSeqProperties
      <4>2. Good(0)
        BY <2>3, <4>1 DEF Keeps
      <4> QED BY <3>2, <4>2
    <3>4. k \in 1 .. n /\ k - 1 \in 0 .. n /\ k - 1 < k
      BY <2>1, <3>2, <3>3
    <3>5. Good(k - 1)
      BY <3>2, <3>4
    <3>6. f[k] = push(f[k - 1], c[k]) /\ c[k] \in Cells
      BY <2>1, <2>3, <3>4
    <3> DEFINE a == f[k - 1]
               v == c[k]
    <3>7. /\ push(a, v) \in Making /\ Keeps(push(a, v), a)
          /\ Fit(a) => Fit(push(a, v)) /\ push(a, v).cells = Append(a.cells, v)
      <4>1. a \in Making /\ v \in Cells
        BY <3>5, <3>6
      <4> HIDE DEF a, v
      <4> QED BY <4>1, PushIs
    <3>8. Keeps(push(a, v), l)
      BY <3>5, <3>7, FreshIs DEF Keeps
    <3>9. Append(SubSeq(c, 1, k - 1), c[k]) = SubSeq(c, 1, k)
      BY <2>1, <3>4
    <3>10. Good(k)
      BY <3>5, <3>6, <3>7, <3>8, <3>9
    <3> QED BY <3>2, <3>10
  <2>5. SubSeq(c, 1, n) = c
    BY <2>1
  <2>6. Good(n)
    BY <2>1, <2>4
  <2> QED BY <2>2, <2>3, <2>5, <2>6 DEF c
<1> QED BY <1>1, <1>2

\* The memory an array has and the room there is for its elements.
LEMMA LoadIs ==
  ASSUME TypeOK, NEW x \in Arrays
  PROVE  Load(x) \in Making /\ Load(x).ok /\ Load(x).data = arr[x].data
         /\ Load(x).size = arr[x].size /\ Load(x).cap = arr[x].cap
         /\ (arr[x].data = Null => Load(x).cells = <<>>)
         /\ (arr[x].data # Null => Load(x).cells = mem[arr[x].data].cells)
<1>1. /\ arr[x].data \in Blocks \cup {Null} /\ arr[x].size \in Nat /\ arr[x].cap \in Nat
      /\ arr[x].data # Null => mem[arr[x].data].cells \in Seq(Cells)
  BY DEF TypeOK
<1>2. (IF arr[x].data = Null THEN <<>> ELSE mem[arr[x].data].cells) \in Seq(Cells)
  BY <1>1, EmptySeq
<1> DEFINE c == IF arr[x].data = Null THEN <<>> ELSE mem[arr[x].data].cells
<1>3. /\ Load(x).data = arr[x].data /\ Load(x).size = arr[x].size
      /\ Load(x).cap = arr[x].cap /\ Load(x).cells = c /\ Load(x).ok = TRUE
      /\ Load(x) = [data |-> arr[x].data, size |-> arr[x].size, cap |-> arr[x].cap,
                    cells |-> c, ok |-> TRUE]
  BY DEF Load
<1>4. Load(x) \in Making
  BY <1>1, <1>2, <1>3 DEF Making
<1> QED BY <1>3, <1>4

\* An array just constructed is empty and has room (SArray.hh:132-148).
LEMMA ConstructedIs ==
  ASSUME NEW n \in Nat, CanAllocate
  PROVE  Constructed(n) \in Making /\ Fit(Constructed(n)) /\ Constructed(n).cells = <<>>
         /\ (Constructed(n).data = Null \/ Constructed(n).data = Fresh)
<1>1. <<>> \in Seq(Cells)
  BY EmptySeq
<1> QED BY <1>1, FreshIs DEF Constructed, Making, Fit

\* clear() keeps the memory and drops the elements (SArray.hh:121-130).
LEMMA ClearIs ==
  ASSUME NEW l \in Making
  PROVE  clear(l) \in Making /\ clear(l).data = l.data
         /\ (Fit(l) => Fit(clear(l)) /\ clear(l).cells = <<>>)
<1>1. CASE l.data = Null
  <2>1. clear(l) = l
    BY <1>1 DEF clear
  <2> QED BY <1>1, <2>1 DEF Fit
<1>2. CASE l.data # Null
  <2> DEFINE none == <<>>
  <2>1. none \in Seq(Cells)
    BY EmptySeq
  <2>2. clear(l) = [l EXCEPT !.size = 0, !.cells = none]
    BY <1>2 DEF clear
  <2> DEFINE zero == 0
  <2>4. zero \in Nat /\ clear(l) = [l EXCEPT !.size = zero, !.cells = none]
    BY <2>2
  <2> HIDE DEF none, zero
  <2>3. /\ clear(l) \in Making /\ clear(l).data = l.data /\ clear(l).size = zero
        /\ clear(l).cap = l.cap /\ clear(l).ok = l.ok /\ clear(l).cells = none
        /\ l.cap \in Nat
    BY <2>1, <2>4 DEF Making
  <2> QED BY <1>2, <2>3 DEF Fit, none, zero
<1> QED BY <1>1, <1>2

-----------------------------------------------------------------------------
(* What a step may do to the heap: it is about o, and about p, from which o *)
(* may take a block.                                                        *)

\* Nothing else changes, and no other allocated block.
Touches(o, p) ==
  /\ \A q \in Objects \ {o, p} :
       /\ q \in Arrays => arr'[q] = arr[q] /\ expect'[q] = expect[q]
       /\ q \in Buffers => buf'[q] = buf[q]
       /\ q \in spoiled' <=> q \in spoiled
  /\ \A d \in Blocks : mem[d].live /\ d # Own(o) => mem'[d] = mem[d]
  /\ mem'[UserBlock] = mem[UserBlock]

\* o keeps its block, gives it up, has a new one or takes that of p; a block
\* that is given up is freed, unless the object was spoiled.
Hands(o, p) ==
  /\ o # p => Own(p)' = Own(p) \/ (Own(p)' = Null /\ Own(o)' = Own(p))
  /\ \/ Own(o)' = Own(o)
     \/ Own(o)' = Null
     \/ Own(o)' \in Blocks /\ ~mem[Own(o)'].live
     \/ o # p /\ Own(o)' = Own(p) /\ Own(p)' = Null
  /\ Own(o)' # Null /\ fault' = NoFault => mem'[Own(o)'].live
  /\ Own(o) # Null /\ Own(o)' # Own(o) => ~mem'[Own(o)].live \/ o \in spoiled
  /\ \A d \in Blocks : ~mem[d].live /\ mem'[d].live => Own(o)' = d

\* What follows for all objects.
LEMMA HeapStep ==
  ASSUME TypeOK, UserKept, Exclusive, NEW o \in Objects, NEW p \in Objects,
         Touches(o, p), Hands(o, p)
  PROVE  /\ UserKept'
         /\ fault' = NoFault => Exclusive'
         /\ \A q \in Objects \ {o, p} :
              Own(q)' = Own(q) /\ (Own(q) # Null => mem'[Own(q)] = mem[Own(q)])
<1>1. ASSUME NEW q \in Objects, q # o, q # p
      PROVE  Own(q)' = Own(q) /\ (Own(q) # Null => mem'[Own(q)] = mem[Own(q)])
  <2>1. q \in Objects \ {o, p} /\ (q \in Arrays \/ q \in Buffers) /\ ~(q \in Arrays /\ q \in Buffers)
    BY <1>1, StorageAssumption DEF Objects
  <2>2. Own(q)' = Own(q)
    BY <2>1 DEF Touches, Own
  <2>3. ASSUME Own(q) # Null PROVE mem'[Own(q)] = mem[Own(q)]
    <3>1. Own(q) \in Blocks /\ mem[Own(q)].live /\ Own(q) # Own(o)
      BY <1>1, <2>3 DEF UserKept, Exclusive
    <3> QED BY <3>1 DEF Touches
  <2> QED BY <2>2, <2>3
<1>2. \A q \in Objects : Own(q)' \in Blocks \cup {Null}
  <2>1. \A q \in Objects : Own(q) \in Blocks \cup {Null}
    BY DEF UserKept
  <2>2. Own(o)' \in Blocks \cup {Null}
    BY <2>1 DEF Hands
  <2>3. Own(p)' \in Blocks \cup {Null}
    BY <2>1, <2>2 DEF Hands
  <2> QED BY <1>1, <2>1, <2>2, <2>3
<1>3. UserKept'
  <2>1. mem'[UserBlock] = Block(Times(Byte, MaxSize))
    BY DEF UserKept, Touches
  <2> QED BY <1>2, <2>1 DEF UserKept
<1>4. ASSUME fault' = NoFault PROVE Exclusive'
  <2>1. ASSUME NEW q \in Objects, Own(q)' # Null PROVE mem'[Own(q)'].live
    <3>1. CASE q = o
      BY <1>4, <2>1, <3>1 DEF Hands
    <3>2. CASE q # o /\ q = p
      <4>1. Own(p)' = Own(p) /\ Own(p) # Null
        BY <2>1, <3>2 DEF Hands
      <4>2. Own(p) \in Blocks /\ mem[Own(p)].live /\ Own(p) # Own(o)
        BY <3>2, <4>1 DEF UserKept, Exclusive
      <4> QED BY <3>2, <4>1, <4>2 DEF Touches
    <3>3. CASE q # o /\ q # p
      BY <1>1, <2>1, <3>3 DEF Exclusive
    <3> QED BY <3>1, <3>2, <3>3
  <2>2. ASSUME NEW q \in Objects, Own(q)' = Own(o)', Own(q)' # Null, q # o PROVE FALSE
    <3>1. Own(q)' = Own(q)
      <4>1. CASE q = p
        BY <2>2, <4>1 DEF Hands
      <4>2. CASE q # p
        BY <1>1, <2>2, <4>2
      <4> QED BY <4>1, <4>2
    <3>2. mem[Own(q)].live /\ Own(q) # Own(o)
      BY <2>2, <3>1 DEF Exclusive
    <3>3. o # p /\ Own(o)' = Own(p) /\ Own(p)' = Null
      BY <2>2, <3>1, <3>2 DEF Hands
    <3>4. q = p
      BY <2>2, <3>1, <3>3 DEF Exclusive
    <3> QED BY <2>2, <3>3, <3>4
  <2>3. ASSUME NEW q \in Objects, NEW r \in Objects, q # o, r # o,
               Own(q)' # Null, Own(q)' = Own(r)'
        PROVE  q = r
    <3>1. Own(q)' = Own(q)
      BY <1>1, <2>3 DEF Hands
    <3>2. Own(r)' = Own(r)
      BY <1>1, <2>3 DEF Hands
    <3> QED BY <2>3, <3>1, <3>2 DEF Exclusive
  <2>4. \A q, r \in Objects : Own(q)' # Null /\ Own(q)' = Own(r)' => q = r
    BY <2>2, <2>3
  <2> QED BY <2>1, <2>4 DEF Exclusive
<1> QED BY <1>1, <1>3, <1>4

\* What is shown of every step, for the objects it is about.
Good(o, p) ==
  /\ TypeOK'
  /\ Touches(o, p) /\ Hands(o, p)
  /\ fault' = NoFault =>
       \A q \in {o, p} : /\ q \in Arrays => ArraySound(q)'
                         /\ q \in Buffers => BufferSound(q)'
  /\ HeldIsAlive'
  /\ OnlySpoiledFault'
  /\ fault'.kind # "double"

\* It is enough.
LEMMA GoodStep ==
  ASSUME IInv, fault = NoFault, NEW o \in Objects, NEW p \in Objects, Good(o, p)
  PROVE  IInv'
<1>1. TypeOK /\ UserKept /\ Exclusive
  BY DEF IInv, Sound
<1>2. /\ UserKept'
      /\ fault' = NoFault => Exclusive'
      /\ \A q \in Objects \ {o, p} :
           Own(q)' = Own(q) /\ (Own(q) # Null => mem'[Own(q)] = mem[Own(q)])
  BY <1>1, HeapStep DEF Good
<1>3. ASSUME fault' = NoFault, NEW x \in Arrays PROVE ArraySound(x)'
  <2>1. CASE x \in {o, p}
    BY <1>3, <2>1 DEF Good
  <2>2. CASE x \notin {o, p}
    <3>1. x \in Objects \ {o, p}
      BY <2>2 DEF Objects
    <3>2. arr'[x] = arr[x] /\ expect'[x] = expect[x] /\ (x \in spoiled' <=> x \in spoiled)
      BY <3>1 DEF Good, Touches
    <3>3. ArraySound(x)
      BY DEF IInv, Sound
    <3>4. arr[x].live /\ arr[x].data # Null => mem'[arr[x].data] = mem[arr[x].data]
      BY <1>2, <3>1 DEF Own
    <3>5. arr[x].live => Load(x)'.cells = Load(x).cells
      BY <3>2, <3>4 DEF Load
    <3> QED BY <3>2, <3>3, <3>5 DEF ArraySound
  <2> QED BY <2>1, <2>2
<1>4. ASSUME fault' = NoFault, NEW b \in Buffers PROVE BufferSound(b)'
  <2>1. CASE b \in {o, p}
    BY <1>4, <2>1 DEF Good
  <2>2. CASE b \notin {o, p}
    <3>1. b \in Objects \ {o, p} /\ b \notin Arrays
      BY <2>2, StorageAssumption DEF Objects
    <3>2. buf'[b] = buf[b] /\ (b \in spoiled' <=> b \in spoiled)
      BY <3>1 DEF Good, Touches
    <3>3. BufferSound(b)
      BY DEF IInv, Sound
    <3>4. buf[b].live /\ buf[b].owns /\ buf[b].data # Null =>
            mem'[buf[b].data] = mem[buf[b].data]
      BY <1>2, <3>1 DEF Own
    <3> QED BY <3>2, <3>3, <3>4 DEF BufferSound
  <2> QED BY <2>1, <2>2
<1> QED BY <1>2, <1>3, <1>4 DEF Good, IInv, Sound

-----------------------------------------------------------------------------
(* The arrays' actions. *)

\* What Store does to the heap, given the array in the making.
LEMMA StoreStep ==
  ASSUME IInv, fault = NoFault, NEW x \in Arrays, NEW l \in Making,
         l.data = Own(x) \/ (Own(x) = Null /\ CanAllocate /\ l.data = Fresh),
         Store(x, l), UNCHANGED <<buf, refs>>,
         expect' \in [Arrays -> Seq(Values)], spoiled' \subseteq Objects,
         \A y \in Arrays \ {x} : expect'[y] = expect[y],
         \A q \in Objects \ {x} : q \in spoiled' <=> q \in spoiled,
         ~l.ok => x \in spoiled',
         x \notin spoiled' => Fit(l) /\ l.cells = expect'[x]
  PROVE  Good(x, x)
<1>0. TypeOK /\ UserKept /\ Exclusive /\ HeldIsAlive /\ x \in Objects
  BY DEF IInv, Sound, Objects
<1>1. l.data = Null \/ (l.data \in Blocks /\ l.data # UserBlock /\ l.data # Null)
  BY <1>0, FreshIs, StorageAssumption DEF UserKept
<1>2. /\ l.data \in Blocks \cup {Null} /\ l.size \in Nat /\ l.cap \in Nat
      /\ l.cells \in Seq(Cells) /\ l.ok \in BOOLEAN
  BY DEF Making
<1>3. arr' = [arr EXCEPT ![x] = [live |-> TRUE, data |-> l.data, size |-> l.size,
                                 cap |-> l.cap]]
  BY DEF Store
<1>4. /\ l.data = Null => mem' = mem
      /\ l.data # Null => mem' = [mem EXCEPT ![l.data] = Block(l.cells)]
  BY DEF Store
<1>5. fault' = (IF l.ok THEN fault ELSE [kind |-> "null", of |-> x])
  BY DEF Store, Fault
<1>6. arr'[x] = [live |-> TRUE, data |-> l.data, size |-> l.size, cap |-> l.cap]
  BY <1>0, <1>3 DEF TypeOK
<1>7. Own(x)' = l.data
  BY <1>6 DEF Own
<1>8. Block(l.cells) \in [live : BOOLEAN, cells : Seq(Cells)] /\ Block(l.cells).live
      /\ Block(l.cells).cells = l.cells
  BY <1>2 DEF Block
<1>9. TypeOK'
  <2>1. mem' \in [Blocks \cup {UserBlock} -> [live : BOOLEAN, cells : Seq(Cells)]]
    BY <1>0, <1>4, <1>8 DEF TypeOK
  <2>2. arr' \in [Arrays -> [live : BOOLEAN, data : Blocks \cup {Null}, size : Nat, cap : Nat]]
    BY <1>0, <1>2, <1>3 DEF TypeOK
  <2>3. fault' \in [kind : {"none", "double", "null", "read", "held"}, of : Objects \cup {Null}]
    BY <1>0, <1>5 DEF TypeOK
  <2> QED BY <1>0, <2>1, <2>2, <2>3 DEF TypeOK
<1>10. Touches(x, x)
  <2>1. \A y \in Arrays \ {x} : arr'[y] = arr[y]
    BY <1>0, <1>3 DEF TypeOK
  <2>2. \A d \in Blocks \cup {UserBlock} : d # l.data => mem'[d] = mem[d]
    BY <1>0, <1>4 DEF TypeOK
  <2>3. \A d \in Blocks : mem[d].live /\ d # Own(x) => d # l.data
    BY FreshIs
  <2> QED BY <1>1, <2>1, <2>2, <2>3, StorageAssumption DEF Touches, Objects
<1>11. Hands(x, x)
  <2>1. l.data # Null => mem'[l.data].live
    BY <1>0, <1>1, <1>4, <1>8 DEF TypeOK
  <2>2. \A d \in Blocks : ~mem[d].live /\ mem'[d].live => l.data = d
    BY <1>0, <1>4 DEF TypeOK
  <2>3. Own(x) # Null => l.data = Own(x)
    OBVIOUS
  <2>4. l.data = Own(x) \/ l.data = Null \/ (l.data \in Blocks /\ ~mem[l.data].live)
    BY FreshIs
  <2> QED BY <1>7, <2>1, <2>2, <2>3, <2>4 DEF Hands
<1>12. ASSUME fault' = NoFault PROVE ArraySound(x)'
  <2>1. ASSUME x \notin spoiled' PROVE Load(x)'.cells = l.cells
    <3>1. CASE l.data = Null
      BY <1>6, <2>1, <3>1 DEF Load, Fit
    <3>2. CASE l.data # Null
      <4>1. mem'[l.data] = Block(l.cells)
        BY <1>0, <1>1, <1>4, <3>2 DEF TypeOK
      <4> QED BY <1>6, <1>8, <3>2, <4>1 DEF Load
    <3> QED BY <3>1, <3>2
  <2> QED BY <1>6, <2>1 DEF ArraySound, Fit
<1>13. x \notin Buffers
  BY StorageAssumption
<1>14. HeldIsAlive'
  BY <1>0 DEF HeldIsAlive
<1>15. OnlySpoiledFault' /\ fault'.kind # "double"
  BY <1>5 DEF OnlySpoiledFault, NoFault
<1> QED BY <1>9, <1>10, <1>11, <1>12, <1>13, <1>14, <1>15 DEF Good

\* An array that is sound can be worked on; its block is its own.
LEMMA SoundIsFit ==
  ASSUME IInv, fault = NoFault, NEW x \in Arrays, arr[x].live
  PROVE  /\ Own(x) = arr[x].data
         /\ x \notin spoiled => Fit(Load(x)) /\ Load(x).cells = expect[x] /\ Readable(Load(x))
<1>1. TypeOK /\ ArraySound(x)
  BY DEF IInv, Sound
<1>2. /\ Load(x).ok /\ Load(x).data = arr[x].data /\ Load(x).size = arr[x].size
      /\ Load(x).cap = arr[x].cap /\ (arr[x].data = Null => Load(x).cells = <<>>)
  BY <1>1, LoadIs
<1>3. arr[x].size \in Nat /\ arr[x].cap \in Nat
  BY <1>1 DEF TypeOK
<1>4. ASSUME x \notin spoiled PROVE Fit(Load(x)) /\ Load(x).cells = expect[x]
  BY <1>1, <1>2, <1>4 DEF ArraySound, Fit
<1>5. ASSUME x \notin spoiled PROVE Readable(Load(x))
  BY <1>2, <1>3, <1>4, <1>5 DEF Readable, Fit
<1>6. Own(x) = arr[x].data
  BY DEF Own
<1> QED BY <1>4, <1>5, <1>6

\* SArray() and SArray(size_t): the array takes a fresh block (SArray.hh:132-148).
LEMMA NewArrayStep ==
  ASSUME IInv, fault = NoFault, NEW x \in Arrays, NEW n \in 0 .. MaxSize, NewArray(x, n)
  PROVE  Good(x, x)
<1> DEFINE l == Constructed(n)
<1>1. CanAllocate /\ ~arr[x].live /\ Store(x, l) /\ UNCHANGED <<buf, refs, spoiled>>
      /\ expect' = [expect EXCEPT ![x] = <<>>]
  BY DEF NewArray
<1>2. n \in Nat
  BY StorageAssumption
<1>3. l \in Making /\ Fit(l) /\ l.cells = <<>> /\ (l.data = Null \/ l.data = Fresh)
  BY <1>1, <1>2, ConstructedIs
<1>4. Own(x) = Null
  BY <1>1 DEF Own
<1>5. TypeOK
  BY DEF IInv
<1>6. /\ expect' \in [Arrays -> Seq(Values)] /\ expect'[x] = <<>>
      /\ \A y \in Arrays \ {x} : expect'[y] = expect[y]
  BY <1>1, <1>5, EmptySeq DEF TypeOK
<1>7. spoiled' = spoiled /\ spoiled' \subseteq Objects
  BY <1>1, <1>5 DEF TypeOK
<1>8. l.ok
  BY <1>3 DEF Fit
<1> HIDE DEF l
<1> QED BY <1>1, <1>3, <1>4, <1>6, <1>7, <1>8, StoreStep

\* push and emplace: the array keeps its block or takes a fresh one
\* (SArray.hh:60-78, 88-92).
LEMMA PushArrayStep ==
  ASSUME IInv, fault = NoFault, NEW x \in Arrays, NEW v \in Values, PushArray(x, v)
  PROVE  Good(x, x)
<1> DEFINE m == Load(x)
           l == push(m, v)
<1>1. CanAllocate /\ arr[x].live /\ Store(x, l) /\ UNCHANGED <<buf, refs, spoiled>>
      /\ expect' = IF x \in spoiled THEN expect ELSE [expect EXCEPT ![x] = Append(@, v)]
  BY DEF PushArray
<1>2. TypeOK
  BY DEF IInv
<1>3. m \in Making /\ m.data = arr[x].data /\ v \in Cells
  BY <1>2, LoadIs DEF Cells
<1>4. /\ Own(x) = arr[x].data
      /\ x \notin spoiled => Fit(m) /\ m.cells = expect[x]
  BY <1>1, SoundIsFit
<1> HIDE DEF m
<1>5. /\ l \in Making /\ Keeps(l, m)
      /\ Fit(m) => Fit(l) /\ l.cells = Append(m.cells, v)
  BY <1>1, <1>3, PushIs
<1>6. Append(expect[x], v) \in Seq(Values)
  BY <1>2, AppendProperties DEF TypeOK
<1>7. /\ expect' \in [Arrays -> Seq(Values)]
      /\ \A y \in Arrays \ {x} : expect'[y] = expect[y]
      /\ x \notin spoiled => expect'[x] = Append(expect[x], v)
  BY <1>1, <1>2, <1>6 DEF TypeOK
<1>8. spoiled' = spoiled /\ spoiled' \subseteq Objects
  BY <1>1, <1>2 DEF TypeOK
<1>9. x \notin spoiled' => Fit(l) /\ l.cells = expect'[x]
  BY <1>4, <1>5, <1>7, <1>8
<1>10. ~l.ok => x \in spoiled'
  BY <1>9 DEF Fit
<1>11. l.data = Own(x) \/ (Own(x) = Null /\ CanAllocate /\ l.data = Fresh)
  BY <1>1, <1>3, <1>4, <1>5 DEF Keeps
<1> HIDE DEF l
<1> QED BY <1>1, <1>5, <1>7, <1>8, <1>9, <1>10, <1>11, StoreStep

\* ensure_capacity called by itself (SArray.hh:99-117).
LEMMA ReserveStep ==
  ASSUME IInv, fault = NoFault, NEW x \in Arrays, NEW n \in 0 .. MaxSize, Reserve(x, n)
  PROVE  Good(x, x)
<1> DEFINE m == Load(x)
           l == ensure_capacity(m, n)
<1>1. CanAllocate /\ arr[x].live /\ Store(x, l) /\ UNCHANGED <<buf, refs, expect, spoiled>>
  BY DEF Reserve
<1>2. TypeOK /\ n \in Nat
  BY StorageAssumption DEF IInv
<1>3. m \in Making /\ m.data = arr[x].data /\ m.ok
  BY <1>2, LoadIs
<1>4. /\ Own(x) = arr[x].data
      /\ x \notin spoiled => Fit(m) /\ m.cells = expect[x]
  BY <1>1, SoundIsFit
<1> HIDE DEF m
<1>5. /\ l \in Making /\ Keeps(l, m) /\ l.ok = m.ok
      /\ Fit(m) => Fit(l) /\ l.cells = m.cells
  BY <1>1, <1>2, <1>3, EnsureIs
<1>6. /\ expect' \in [Arrays -> Seq(Values)] /\ expect' = expect
      /\ \A y \in Arrays \ {x} : expect'[y] = expect[y]
      /\ spoiled' = spoiled /\ spoiled' \subseteq Objects
  BY <1>1, <1>2 DEF TypeOK
<1>7. x \notin spoiled' => Fit(l) /\ l.cells = expect'[x]
  BY <1>4, <1>5, <1>6
<1>8. l.data = Own(x) \/ (Own(x) = Null /\ CanAllocate /\ l.data = Fresh)
  BY <1>1, <1>3, <1>4, <1>5 DEF Keeps
<1> HIDE DEF l
<1> QED BY <1>1, <1>3, <1>5, <1>6, <1>7, <1>8, StoreStep

\* clear() called by itself (SArray.hh:121-130).
LEMMA ClearArrayStep ==
  ASSUME IInv, fault = NoFault, NEW x \in Arrays, ClearArray(x)
  PROVE  Good(x, x)
<1> DEFINE m == Load(x)
           l == clear(m)
<1>1. arr[x].live /\ Store(x, l) /\ UNCHANGED <<buf, refs, spoiled>>
      /\ expect' = [expect EXCEPT ![x] = <<>>]
  BY DEF ClearArray
<1>2. TypeOK
  BY DEF IInv
<1>3. m \in Making /\ m.data = arr[x].data /\ m.ok
  BY <1>2, LoadIs
<1>4. /\ Own(x) = arr[x].data
      /\ x \notin spoiled => Fit(m)
  BY <1>1, SoundIsFit
<1> HIDE DEF m
<1>5. /\ l \in Making /\ l.data = m.data
      /\ Fit(m) => Fit(l) /\ l.cells = <<>>
  BY <1>3, ClearIs
<1>6. l.ok
  BY <1>3 DEF clear, Making
<1>7. /\ expect' \in [Arrays -> Seq(Values)] /\ expect'[x] = <<>>
      /\ \A y \in Arrays \ {x} : expect'[y] = expect[y]
      /\ spoiled' = spoiled /\ spoiled' \subseteq Objects
  BY <1>1, <1>2, EmptySeq DEF TypeOK
<1>8. x \notin spoiled' => Fit(l) /\ l.cells = expect'[x]
  BY <1>4, <1>5, <1>7
<1>9. l.data = Own(x)
  BY <1>3, <1>4, <1>5
<1> HIDE DEF l
<1> QED BY <1>1, <1>5, <1>6, <1>7, <1>8, <1>9, StoreStep

\* The copy constructor: what the other array holds, in a fresh block
\* (SArray.hh:191-197).
LEMMA CopyArrayStep ==
  ASSUME IInv, fault = NoFault, NEW x \in Arrays, NEW y \in Arrays, CopyArray(x, y)
  PROVE  Good(x, x)
<1> DEFINE m == Load(y)
           c == Constructed(arr[y].size)
           l == EmplaceAll(c, m)
<1>1. /\ ~arr[x].live /\ arr[y].live /\ CanAllocate /\ Store(x, l)
      /\ expect' = [expect EXCEPT ![x] = expect[y]]
      /\ spoiled' = (IF y \in spoiled THEN spoiled \cup {x} ELSE spoiled)
      /\ UNCHANGED <<buf, refs>>
  BY DEF CopyArray
<1>2. TypeOK
  BY DEF IInv
<1>3. m \in Making /\ arr[y].size \in Nat
  BY <1>2, LoadIs DEF TypeOK
<1>4. y \notin spoiled => Readable(m) /\ m.cells = expect[y]
  BY <1>1, SoundIsFit
<1>5. Own(x) = Null
  BY <1>1 DEF Own
<1>6. c \in Making /\ Fit(c) /\ c.cells = <<>> /\ (c.data = Null \/ c.data = Fresh)
  BY <1>1, <1>3, ConstructedIs
<1> HIDE DEF m, c
<1>7. /\ l \in Making /\ Keeps(l, c)
      /\ Fit(c) /\ c.cells = <<>> /\ Readable(m) => Fit(l) /\ l.cells = m.cells
  BY <1>1, <1>3, <1>6, EmplaceIs
<1>8. /\ expect' \in [Arrays -> Seq(Values)] /\ expect'[x] = expect[y]
      /\ \A z \in Arrays \ {x} : expect'[z] = expect[z]
  BY <1>1, <1>2 DEF TypeOK
<1>9. /\ spoiled' \subseteq Objects
      /\ \A q \in Objects \ {x} : q \in spoiled' <=> q \in spoiled
      /\ y \in spoiled => x \in spoiled'
  BY <1>1, <1>2 DEF TypeOK, Objects
<1>10. x \notin spoiled' => Fit(l) /\ l.cells = expect'[x]
  BY <1>4, <1>6, <1>7, <1>8, <1>9
<1>11. ~l.ok => x \in spoiled'
  BY <1>10 DEF Fit
<1>12. l.data = Own(x) \/ (Own(x) = Null /\ CanAllocate /\ l.data = Fresh)
  BY <1>1, <1>5, <1>6, <1>7 DEF Keeps
<1> HIDE DEF l
<1> QED BY <1>1, <1>7, <1>8, <1>9, <1>10, <1>11, <1>12, StoreStep

\* The copy assignment; of an array to itself it spoils the array
\* (SArray.hh:209-219).
LEMMA AssignArrayStep ==
  ASSUME IInv, fault = NoFault, NEW x \in Arrays, NEW y \in Arrays, AssignArray(x, y)
  PROVE  Good(x, x)
<1> DEFINE m == Load(x)
           e == clear(m)
           c == ensure_capacity(e, arr[y].cap)
           s == IF x = y THEN c ELSE Load(y)
           l == EmplaceAll(c, s)
<1>1. /\ arr[x].live /\ arr[y].live /\ CanAllocate /\ Store(x, l)
      /\ spoiled' = (IF x = y \/ y \in spoiled THEN spoiled \cup {x} ELSE spoiled)
      /\ expect' = [expect EXCEPT ![x] = IF x \in spoiled' THEN <<>> ELSE expect[y]]
      /\ UNCHANGED <<buf, refs>>
  BY DEF AssignArray, AssignWith
<1>2. TypeOK
  BY DEF IInv
<1>3. m \in Making /\ m.data = arr[x].data /\ Load(y) \in Making /\ arr[y].cap \in Nat
  BY <1>2, LoadIs DEF TypeOK
<1>4. /\ Own(x) = arr[x].data
      /\ x \notin spoiled => Fit(m)
      /\ y \notin spoiled => Readable(Load(y)) /\ Load(y).cells = expect[y]
  BY <1>1, SoundIsFit
<1> HIDE DEF m
<1>5. /\ e \in Making /\ e.data = m.data
      /\ Fit(m) => Fit(e) /\ e.cells = <<>>
  BY <1>3, ClearIs
<1> HIDE DEF e
<1>6. /\ c \in Making /\ Keeps(c, e)
      /\ Fit(e) => Fit(c) /\ c.cells = e.cells
  BY <1>1, <1>3, <1>5, EnsureIs
<1> HIDE DEF c
<1>7. s \in Making
  BY <1>3, <1>6
<1>8. x # y /\ y \notin spoiled => Readable(s) /\ s.cells = expect[y]
  BY <1>4
<1> HIDE DEF s
<1>9. /\ l \in Making /\ Keeps(l, c)
      /\ Fit(c) /\ c.cells = <<>> /\ Readable(s) => Fit(l) /\ l.cells = s.cells
  BY <1>1, <1>6, <1>7, EmplaceIs
<1>10. /\ spoiled' \subseteq Objects
       /\ \A q \in Objects \ {x} : q \in spoiled' <=> q \in spoiled
       /\ x \notin spoiled' => x # y /\ y \notin spoiled /\ x \notin spoiled
  BY <1>1, <1>2 DEF TypeOK, Objects
<1>11. /\ expect' \in [Arrays -> Seq(Values)]
       /\ x \notin spoiled' => expect'[x] = expect[y]
       /\ \A z \in Arrays \ {x} : expect'[z] = expect[z]
  BY <1>1, <1>2, EmptySeq DEF TypeOK
<1>12. x \notin spoiled' => Fit(l) /\ l.cells = expect'[x]
  BY <1>4, <1>5, <1>6, <1>8, <1>9, <1>10, <1>11
<1>13. ~l.ok => x \in spoiled'
  BY <1>12 DEF Fit
<1>14. l.data = Own(x) \/ (Own(x) = Null /\ CanAllocate /\ l.data = Fresh)
  BY <1>1, <1>3, <1>4, <1>5, <1>6, <1>9, FreshIs DEF Keeps
<1> HIDE DEF l
<1> QED BY <1>1, <1>9, <1>10, <1>11, <1>12, <1>13, <1>14, StoreStep

\* Freeing the block of an object (SArray.hh:157, 229, Buffer.cc:61, 86).
LEMMA FreeStep ==
  ASSUME IInv, fault = NoFault, NEW o \in Objects, Own(o) # Null,
         mem' = Released(mem, Own(o)), FreeFault(Own(o), o)
  PROVE  /\ mem' \in [Blocks \cup {UserBlock} -> [live : BOOLEAN, cells : Seq(Cells)]]
         /\ mem'[UserBlock] = mem[UserBlock]
         /\ \A d \in Blocks : d # Own(o) => mem'[d] = mem[d]
         /\ ~mem'[Own(o)].live
         /\ fault' = fault
<1>1. TypeOK /\ Own(o) \in Blocks /\ mem[Own(o)].live /\ Own(o) # UserBlock
  BY StorageAssumption DEF IInv, Sound, UserKept, Exclusive
<1>2. Freed \in [live : BOOLEAN, cells : Seq(Cells)] /\ ~Freed.live
  BY EmptySeq DEF Freed
<1> QED BY <1>1, <1>2 DEF TypeOK, Released, FreeFault

\* ~SArray frees the array's own block (SArray.hh:151-160).
LEMMA DestroyArrayStep ==
  ASSUME IInv, fault = NoFault, NEW x \in Arrays, DestroyArray(x)
  PROVE  Good(x, x)
<1>1. /\ arr[x].live /\ arr' = [arr EXCEPT ![x] = NoArray]
      /\ arr[x].data # Null => mem' = Released(mem, arr[x].data) /\ FreeFault(arr[x].data, x)
      /\ arr[x].data = Null => UNCHANGED <<mem, fault>>
      /\ expect' = [expect EXCEPT ![x] = <<>>]
      /\ spoiled' = spoiled \ {x} /\ UNCHANGED <<buf, refs>>
  BY DEF DestroyArray, DestroyOf
<1>2. TypeOK /\ x \in Objects /\ x \notin Buffers /\ HeldIsAlive
  BY StorageAssumption DEF IInv, Objects
<1>3. Own(x) = arr[x].data
  BY <1>1 DEF Own
<1>4. arr'[x] = NoArray /\ \A y \in Arrays \ {x} : arr'[y] = arr[y]
  BY <1>1, <1>2 DEF TypeOK
<1>5. Own(x)' = Null
  BY <1>4 DEF Own, NoArray
<1>6. /\ mem' \in [Blocks \cup {UserBlock} -> [live : BOOLEAN, cells : Seq(Cells)]]
      /\ mem'[UserBlock] = mem[UserBlock]
      /\ \A d \in Blocks : d # Own(x) => mem'[d] = mem[d]
      /\ Own(x) # Null => ~mem'[Own(x)].live
      /\ fault' = fault
      /\ Own(x) = Null => mem' = mem
  BY <1>1, <1>2, <1>3, FreeStep DEF TypeOK
<1>7. TypeOK'
  <2>1. arr' \in [Arrays -> [live : BOOLEAN, data : Blocks \cup {Null}, size : Nat, cap : Nat]]
    BY <1>1, <1>2 DEF TypeOK, NoArray
  <2>2. expect' \in [Arrays -> Seq(Values)]
    BY <1>1, <1>2, EmptySeq DEF TypeOK
  <2> QED BY <1>1, <1>2, <1>6, <2>1, <2>2 DEF TypeOK
<1>8. Touches(x, x)
  BY <1>1, <1>2, <1>4, <1>6 DEF Touches, TypeOK, Objects
<1>9. Hands(x, x)
  BY <1>5, <1>6 DEF Hands
<1>10. ArraySound(x)'
  BY <1>4 DEF ArraySound, NoArray
<1>11. HeldIsAlive' /\ OnlySpoiledFault' /\ fault'.kind # "double"
  BY <1>1, <1>2, <1>6 DEF HeldIsAlive, OnlySpoiledFault, NoFault
<1> QED BY <1>2, <1>7, <1>8, <1>9, <1>10, <1>11 DEF Good

\* Moving hands the block over; what the target had is freed (SArray.hh:163-170,
\* 223-239).
LEMMA MoveArrayStep ==
  ASSUME IInv, fault = NoFault, NEW x \in Arrays, NEW y \in Arrays, MoveArray(x, y)
  PROVE  Good(x, y)
<1> DEFINE frees == arr[x].live /\ arr[x].data # Null
           taken == IF x = y THEN Null ELSE arr[y].data
           n == IF x = y /\ frees THEN 0 ELSE arr[y].size
<1>1. /\ arr[y].live /\ (arr[x].live \/ x # y)
      /\ arr' = [[arr EXCEPT ![y].data = Null] EXCEPT
                   ![x] = [live |-> TRUE, data |-> taken, size |-> n, cap |-> arr[y].cap]]
      /\ frees => mem' = Released(mem, arr[x].data) /\ FreeFault(arr[x].data, x)
      /\ ~frees => mem' = mem /\ fault' = fault
      /\ expect' = [expect EXCEPT ![x] = IF x = y THEN <<>> ELSE expect[y], ![y] = <<>>]
      /\ spoiled' = (IF y \in spoiled THEN spoiled ELSE spoiled \ {x}) \cup {y}
                      \cup (IF y \in spoiled THEN {x} ELSE {})
      /\ UNCHANGED <<buf, refs>>
  BY DEF MoveArray, MoveInto
<1>2. /\ TypeOK /\ Exclusive /\ UserKept /\ HeldIsAlive
      /\ x \in Objects /\ y \in Objects /\ x \notin Buffers /\ y \notin Buffers
  BY StorageAssumption DEF IInv, Sound, Objects
<1>3. Own(y) = arr[y].data /\ (frees => Own(x) = arr[x].data) /\ (~frees => Own(x) = Null)
      /\ (frees => Own(x) # Null)
  BY <1>1 DEF Own
<1>4. n \in Nat /\ taken \in Blocks \cup {Null} /\ arr[y].cap \in Nat
  BY <1>2 DEF TypeOK
<1>5. /\ mem' \in [Blocks \cup {UserBlock} -> [live : BOOLEAN, cells : Seq(Cells)]]
      /\ mem'[UserBlock] = mem[UserBlock]
      /\ \A d \in Blocks : d # Own(x) => mem'[d] = mem[d]
      /\ Own(x) # Null => ~mem'[Own(x)].live
      /\ fault' = fault
      /\ Own(x) = Null => mem' = mem
  BY <1>1, <1>2, <1>3, FreeStep DEF TypeOK
<1> HIDE DEF frees, n
<1>6. /\ arr'[x] = [live |-> TRUE, data |-> taken, size |-> n, cap |-> arr[y].cap]
      /\ x # y => arr'[y] = [arr[y] EXCEPT !.data = Null]
      /\ \A z \in Arrays \ {x, y} : arr'[z] = arr[z]
  BY <1>1, <1>2 DEF TypeOK
<1>7. x # y => arr'[y].data = Null /\ arr'[y].live
  BY <1>1, <1>2, <1>6 DEF TypeOK
<1>8. Own(x)' = taken /\ (x # y => Own(y)' = Null)
  BY <1>6, <1>7 DEF Own
<1>9. TypeOK'
  <2> DEFINE R == [live : BOOLEAN, data : Blocks \cup {Null}, size : Nat, cap : Nat]
  <2>0. arr \in [Arrays -> R]
    BY <1>2 DEF TypeOK
  <2>4. arr'[x] \in R /\ (x # y => arr'[y] \in R)
    BY <1>4, <1>6, <2>0
  <2>5. arr' = [z \in Arrays |-> arr'[z]]
    BY <1>1, <2>0
  <2> HIDE DEF R
  <2>1. arr' \in [Arrays -> R]
    BY <1>6, <2>0, <2>4, <2>5
  <2> USE DEF R
  <2>2. expect' \in [Arrays -> Seq(Values)]
    BY <1>1, <1>2, EmptySeq DEF TypeOK
  <2>3. spoiled' \subseteq Objects
    BY <1>1, <1>2 DEF TypeOK
  <2> QED BY <1>1, <1>2, <1>5, <2>1, <2>2, <2>3 DEF TypeOK
<1>10. Touches(x, y)
  <2>1. \A z \in Arrays \ {x, y} : expect'[z] = expect[z]
    BY <1>1, <1>2 DEF TypeOK
  <2>2. \A q \in Objects \ {x, y} : q \in spoiled' <=> q \in spoiled
    BY <1>1
  <2> QED BY <1>1, <1>5, <1>6, <2>1, <2>2 DEF Touches
<1>11. Hands(x, y)
  <2>1. taken # Null => taken \in Blocks /\ mem'[taken].live
    <3> SUFFICES ASSUME taken # Null PROVE taken \in Blocks /\ mem'[taken].live
      OBVIOUS
    <3>1. x # y /\ taken = Own(y) /\ Own(y) # Null
      BY <1>3
    <3>2. Own(y) # Own(x) /\ mem[Own(y)].live /\ Own(y) \in Blocks
      BY <1>2, <3>1 DEF Exclusive, UserKept
    <3> QED BY <1>5, <3>1, <3>2
  <2>2. \A d \in Blocks : mem'[d].live => mem[d].live
    BY <1>2, <1>5 DEF UserKept
  <2>3. taken = Own(y) \/ (x = y /\ taken = Null)
    BY <1>3
  <2> HIDE DEF taken
  <2> QED BY <1>3, <1>5, <1>8, <2>1, <2>2, <2>3 DEF Hands
<1>12. y \in spoiled'
  BY <1>1
<1>13. ArraySound(x)'
  <2> SUFFICES ASSUME x \notin spoiled' PROVE ArraySound(x)'
    BY DEF ArraySound
  <2>1. x # y /\ y \notin spoiled /\ taken = arr[y].data /\ n = arr[y].size
    BY <1>1, <1>12 DEF n
  <2>2. ArraySound(y)
    BY DEF IInv, Sound
  <2>3. expect'[x] = expect[y]
    BY <1>1, <1>2, <2>1 DEF TypeOK
  <2>4. arr[y].data # Null => mem'[arr[y].data] = mem[arr[y].data]
    <3> SUFFICES ASSUME arr[y].data # Null PROVE mem'[arr[y].data] = mem[arr[y].data]
      OBVIOUS
    <3>1. Own(y) # Own(x) /\ Own(y) \in Blocks
      BY <1>2, <1>3, <2>1 DEF Exclusive, UserKept
    <3> QED BY <1>3, <1>5, <3>1
  <2>5. Load(x)'.cells = Load(y).cells
    BY <1>6, <2>1, <2>4 DEF Load
  <2>6. arr'[x].data = arr[y].data /\ arr'[x].size = arr[y].size /\ arr'[x].cap = arr[y].cap
    BY <1>6, <2>1
  <2>7. /\ arr[y].cap > 0 => arr[y].data # Null
        /\ arr[y].size <= arr[y].cap
        /\ Load(y).cells = expect[y]
    BY <1>1, <2>1, <2>2 DEF ArraySound
  <2> QED BY <2>3, <2>5, <2>6, <2>7 DEF ArraySound
<1>14. ArraySound(y)'
  BY <1>12 DEF ArraySound
<1>15. HeldIsAlive' /\ OnlySpoiledFault' /\ fault'.kind # "double"
  BY <1>1, <1>2, <1>5 DEF HeldIsAlive, OnlySpoiledFault, NoFault
<1> QED BY <1>2, <1>9, <1>10, <1>11, <1>13, <1>14, <1>15 DEF Good

-----------------------------------------------------------------------------
(* The buffers' actions. *)

BufferStates == [live : BOOLEAN, data : Blocks \cup {UserBlock, Null}, length : Nat,
                 owns : BOOLEAN, free : BOOLEAN]

\* What an object that was not spoiled points to can be read (Buffer.cc:49-56).
LEMMA SoundIsRead ==
  ASSUME IInv, fault = NoFault, NEW c \in Buffers, buf[c].live, c \notin spoiled,
         NEW n \in Nat, n <= buf[c].length
  PROVE  CanRead(c, n)
<1> SUFFICES ASSUME n # 0 PROVE CanRead(c, n)
  BY DEF CanRead
<1>1. TypeOK /\ UserKept /\ BufferSound(c) /\ MaxSize \in Nat /\ UserBlock # Null
  BY StorageAssumption DEF IInv, Sound
<1>2. buf[c].length \in Nat /\ buf[c].length # 0
  BY <1>1 DEF TypeOK
<1>3. CASE buf[c].owns
  BY <1>1, <1>3 DEF BufferSound, CanRead
<1>4. CASE ~buf[c].owns
  <2>1. buf[c].data = UserBlock /\ buf[c].length <= MaxSize
    BY <1>1, <1>2, <1>4 DEF BufferSound
  <2>2. Len(mem[UserBlock].cells) = MaxSize
    <3>1. mem[UserBlock].cells = Times(Byte, MaxSize)
      BY <1>1 DEF UserKept, Block
    <3>2. Len(Times(Byte, MaxSize)) = MaxSize
      BY <1>1, TimesIs DEF Cells
    <3> QED BY <3>1, <3>2
  <2> QED BY <1>1, <1>2, <2>1, <2>2 DEF CanRead
<1> QED BY <1>3, <1>4

\* A step that is about one buffer b, of which it makes r.
LEMMA OneBuffer ==
  ASSUME IInv, fault = NoFault, NEW b \in Buffers, NEW r \in BufferStates,
         buf' = [buf EXCEPT ![b] = r], UNCHANGED <<arr, expect>>,
         mem' \in [Blocks \cup {UserBlock} -> [live : BOOLEAN, cells : Seq(Cells)]],
         mem'[UserBlock] = mem[UserBlock],
         \A d \in Blocks : mem[d].live /\ d # Own(b) => mem'[d] = mem[d],
         fault' \in [kind : {"none", "double", "null", "read", "held"}, of : Objects \cup {Null}],
         spoiled' \subseteq Objects,
         \A q \in Objects \ {b} : q \in spoiled' <=> q \in spoiled,
         refs' \in [Buffers -> Nat],
         \A q \in Buffers : refs'[q] > 0 => refs[q] > 0 \/ (q = b /\ r.live),
         fault' = NoFault /\ refs'[b] > 0 => r.live,
         fault'.kind # "double",
         fault' # NoFault => fault'.kind = "held" \/ fault'.of \in spoiled',
         Hands(b, b), fault' = NoFault => BufferSound(b)'
  PROVE  Good(b, b)
<1>1. TypeOK /\ HeldIsAlive /\ b \in Objects /\ b \notin Arrays
  BY StorageAssumption DEF IInv, Objects
<1>2. buf'[b] = r /\ \A q \in Buffers \ {b} : buf'[q] = buf[q]
  BY <1>1 DEF TypeOK
<1>3. TypeOK'
  <2>1. buf' \in [Buffers -> BufferStates]
    BY <1>1 DEF TypeOK, BufferStates
  <2> QED BY <1>1, <2>1 DEF TypeOK, BufferStates
<1>4. Touches(b, b)
  BY <1>1, <1>2 DEF Touches
<1>5. HeldIsAlive'
  BY <1>1, <1>2 DEF HeldIsAlive
<1>6. OnlySpoiledFault'
  BY DEF OnlySpoiledFault, NoFault
<1> QED BY <1>1, <1>3, <1>4, <1>5, <1>6 DEF Good

\* Buffer(const char*, size_t) owns nothing (Buffer.cc:8-13).
LEMMA BorrowStep ==
  ASSUME IInv, fault = NoFault, NEW b \in Buffers, NEW n \in 0 .. MaxSize, Borrow(b, n)
  PROVE  Good(b, b)
<1> DEFINE d == IF n = 0 THEN Null ELSE UserBlock
           r == [NoBuffer EXCEPT !.live = TRUE, !.length = n, !.data = d]
<1>1. /\ ~buf[b].live /\ UNCHANGED <<arr, expect, mem, refs, spoiled, fault>>
      /\ buf' = [buf EXCEPT ![b] = r]
  BY DEF Borrow, Others
<1>2. NoBuffer \in BufferStates /\ ~NoBuffer.owns
  BY DEF NoBuffer, BufferStates
<1>3. TypeOK /\ HeldIsAlive /\ n \in Nat /\ n <= MaxSize /\ b \notin Arrays
      /\ d \in {UserBlock, Null} /\ d = (IF n = 0 THEN Null ELSE UserBlock)
  BY StorageAssumption DEF IInv
<1> HIDE DEF d
<1>4. r \in BufferStates /\ r.live /\ ~r.owns /\ r.length = n /\ r.data = d
  BY <1>2, <1>3 DEF BufferStates
<1> HIDE DEF r
<1>6. buf'[b] = r
  BY <1>1, <1>3 DEF TypeOK
<1>7. Own(b) = Null /\ Own(b)' = Null
  BY <1>1, <1>3, <1>4, <1>6 DEF Own
<1>8. Hands(b, b)
  BY <1>1, <1>7 DEF Hands
<1>9. BufferSound(b)'
  BY <1>3, <1>4, <1>6 DEF BufferSound
<1>10. fault'.kind # "double" /\ refs' \in [Buffers -> Nat] /\ spoiled' \subseteq Objects
       /\ fault' \in [kind : {"none", "double", "null", "read", "held"}, of : Objects \cup {Null}]
       /\ mem' \in [Blocks \cup {UserBlock} -> [live : BOOLEAN, cells : Seq(Cells)]]
  BY <1>1, <1>3 DEF NoFault, TypeOK
<1> QED BY <1>1, <1>4, <1>8, <1>9, <1>10, OneBuffer

\* A block that malloc returned, filled with n bytes.
LEMMA FillStep ==
  ASSUME IInv, CanAllocate, NEW n \in Nat,
         mem' = [mem EXCEPT ![Fresh] = Block(Times(Byte, n))]
  PROVE  /\ mem' \in [Blocks \cup {UserBlock} -> [live : BOOLEAN, cells : Seq(Cells)]]
         /\ mem'[UserBlock] = mem[UserBlock]
         /\ \A d \in Blocks : d # Fresh => mem'[d] = mem[d]
         /\ mem'[Fresh].live /\ Len(mem'[Fresh].cells) = n
<1>1. TypeOK /\ Fresh \in Blocks /\ Fresh # UserBlock
  BY FreshIs DEF IInv
<1>2. /\ Block(Times(Byte, n)) \in [live : BOOLEAN, cells : Seq(Cells)]
      /\ Block(Times(Byte, n)).live /\ Len(Block(Times(Byte, n)).cells) = n
  BY TimesIs DEF Block, Cells
<1> QED BY <1>1, <1>2 DEF TypeOK

\* Buffer(size_t) and a buffer that takes ownership: one block, one owner
\* (Buffer.cc:16-31).
LEMMA NewBufferStep ==
  ASSUME IInv, fault = NoFault, NEW b \in Buffers, NEW n \in 0 .. MaxSize, NewBuffer(b, n)
  PROVE  Good(b, b)
<1> DEFINE r == Allocated(n)
           f == Fresh
<1>1. /\ ~buf[b].live /\ CanAllocate /\ UNCHANGED <<arr, expect, refs, spoiled, fault>>
      /\ buf' = [buf EXCEPT ![b] = r]
      /\ mem' = [mem EXCEPT ![Fresh] = Block(Times(Byte, n))]
  BY DEF NewBuffer, Others
<1>2. TypeOK /\ n \in Nat /\ b \notin Arrays
  BY StorageAssumption DEF IInv
<1>3. f \in Blocks /\ ~mem[f].live /\ f # Null /\ f # UserBlock
  BY <1>1, FreshIs
<1>4. r \in BufferStates /\ r.live /\ r.owns /\ r.free /\ r.length = n /\ r.data = f
  BY <1>2, <1>3 DEF BufferStates, Allocated
<1>5. /\ mem' \in [Blocks \cup {UserBlock} -> [live : BOOLEAN, cells : Seq(Cells)]]
      /\ mem'[UserBlock] = mem[UserBlock]
      /\ \A d \in Blocks : d # f => mem'[d] = mem[d]
      /\ mem'[f].live /\ Len(mem'[f].cells) = n
  BY <1>1, <1>2, FillStep
<1> HIDE DEF r, f
<1>6. buf'[b] = r
  BY <1>1, <1>2 DEF TypeOK
<1>7. Own(b) = Null /\ Own(b)' = f
  BY <1>1, <1>2, <1>4, <1>6 DEF Own
<1>8. Hands(b, b)
  BY <1>3, <1>5, <1>7 DEF Hands
<1>9. BufferSound(b)'
  BY <1>3, <1>4, <1>5, <1>6 DEF BufferSound
<1>10. fault'.kind # "double" /\ refs' \in [Buffers -> Nat] /\ spoiled' \subseteq Objects
       /\ fault' \in [kind : {"none", "double", "null", "read", "held"}, of : Objects \cup {Null}]
  BY <1>1, <1>2 DEF NoFault, TypeOK
<1>11. \A d \in Blocks : mem[d].live /\ d # Own(b) => mem'[d] = mem[d]
  BY <1>3, <1>5
<1> QED BY <1>1, <1>4, <1>5, <1>8, <1>9, <1>10, <1>11, OneBuffer

\* Copying a buffer, whether or not it owns (Buffer.cc:49-56, 99-122).
LEMMA CopyBufferStep ==
  ASSUME IInv, fault = NoFault, NEW b \in Buffers, NEW c \in Buffers, CopyBuffer(b, c)
  PROVE  Good(b, b)
<1> DEFINE n == buf[c].length
           r == Allocated(n)
           f == Fresh
<1>1. /\ ~buf[b].live /\ buf[c].live /\ CanAllocate
      /\ UNCHANGED <<arr, expect, refs, spoiled>>
      /\ buf' = [buf EXCEPT ![b] = r]
      /\ CanRead(c, n) => mem' = [mem EXCEPT ![Fresh] = Block(Times(Byte, n))] /\ fault' = fault
      /\ ~CanRead(c, n) => mem' = mem /\ fault' = [kind |-> "read", of |-> c]
  BY DEF CopyBuffer, Others, Fault
<1>2. TypeOK /\ n \in Nat /\ b \notin Arrays /\ c \in Objects /\ b \in Objects
  BY StorageAssumption DEF IInv, TypeOK, Objects
<1>3. f \in Blocks /\ ~mem[f].live /\ f # Null /\ f # UserBlock
  BY <1>1, FreshIs
<1>4. r \in BufferStates /\ r.live /\ r.owns /\ r.free /\ r.length = n /\ r.data = f
  BY <1>2, <1>3 DEF BufferStates, Allocated
<1>5. /\ mem' \in [Blocks \cup {UserBlock} -> [live : BOOLEAN, cells : Seq(Cells)]]
      /\ mem'[UserBlock] = mem[UserBlock]
      /\ \A d \in Blocks : d # f => mem'[d] = mem[d]
      /\ fault' = NoFault => mem'[f].live /\ Len(mem'[f].cells) = n
  <2>1. CASE CanRead(c, n)
    BY <1>1, <1>2, <2>1, FillStep
  <2>2. CASE ~CanRead(c, n)
    BY <1>1, <1>2, <2>2 DEF TypeOK, NoFault
  <2> QED BY <2>1, <2>2
<1>6. ~CanRead(c, n) => c \in spoiled
  BY <1>1, <1>2, SoundIsRead
<1>7. /\ fault' \in [kind : {"none", "double", "null", "read", "held"}, of : Objects \cup {Null}]
      /\ fault'.kind # "double"
      /\ fault' # NoFault => fault'.of \in spoiled'
  BY <1>1, <1>2, <1>6 DEF NoFault, TypeOK
<1> HIDE DEF r, f, n
<1>8. buf'[b] = r
  BY <1>1, <1>2 DEF TypeOK
<1>9. Own(b) = Null /\ Own(b)' = f
  BY <1>1, <1>2, <1>4, <1>8 DEF Own
<1>10. Hands(b, b)
  BY <1>3, <1>5, <1>9 DEF Hands
<1>11. fault' = NoFault => BufferSound(b)'
  BY <1>3, <1>4, <1>5, <1>8 DEF BufferSound
<1>12. refs' \in [Buffers -> Nat] /\ spoiled' \subseteq Objects
  BY <1>1, <1>2 DEF TypeOK
<1>13. \A d \in Blocks : mem[d].live /\ d # Own(b) => mem'[d] = mem[d]
  BY <1>3, <1>5
<1> QED BY <1>1, <1>4, <1>5, <1>7, <1>10, <1>11, <1>12, <1>13, OneBuffer

\* resize: reallocated, or copied by a buffer that borrowed (Buffer.cc:65-81).
LEMMA ResizeStep ==
  ASSUME IInv, fault = NoFault, NEW b \in Buffers, NEW n \in 0 .. MaxSize, Resize(b, n)
  PROVE  Good(b, b)
<1> DEFINE kept == Least(buf[b].length, n)
           d == IF buf[b].owns THEN buf[b].data ELSE Fresh
           r == [buf[b] EXCEPT !.length = n, !.data = d, !.owns = TRUE]
           cells == Times(Byte, n)
<1>1. /\ buf[b].live /\ CanAllocate /\ UNCHANGED <<arr, expect, refs>>
      /\ buf' = [buf EXCEPT ![b].length = n, ![b].data = d, ![b].owns = TRUE]
      /\ CanRead(b, kept) => mem' = [mem EXCEPT ![d] = Block(cells)] /\ fault' = fault
      /\ ~CanRead(b, kept) => mem' = mem /\ fault' = [kind |-> "read", of |-> b]
      /\ spoiled' = IF buf[b].owns THEN spoiled ELSE spoiled \cup {b}
  BY DEF Resize, Others, Fault
<1>2. /\ TypeOK /\ UserKept /\ Exclusive /\ n \in Nat /\ b \notin Arrays /\ b \in Objects
      /\ buf[b] \in BufferStates
  BY StorageAssumption DEF IInv, Sound, TypeOK, Objects, BufferStates
<1>3. kept \in Nat /\ kept <= buf[b].length
  BY <1>2 DEF Least, BufferStates
<1>4. Fresh \in Blocks /\ ~mem[Fresh].live /\ Fresh # Null /\ Fresh # UserBlock
  BY <1>1, FreshIs
<1>5. /\ Own(b) = IF buf[b].owns THEN d ELSE Null
      /\ d \in Blocks \cup {Null} /\ d # UserBlock
      /\ buf[b].owns => d = buf[b].data /\ (d # Null => mem[d].live)
      /\ ~buf[b].owns => d = Fresh
  BY <1>1, <1>2, <1>4, StorageAssumption DEF Own, UserKept, Exclusive
<1>6. ~CanRead(b, kept) => b \in spoiled'
  BY <1>1, <1>2, <1>3, SoundIsRead
<1>7. cells \in Seq(Cells) /\ Len(cells) = n
  BY <1>2, TimesIs DEF Cells
<1> HIDE DEF d, cells, kept
<1>8. /\ r \in BufferStates /\ r.live /\ r.owns /\ r.length = n /\ r.data = d
      /\ r.free = buf[b].free
  <2>1. r = [[[buf[b] EXCEPT !.length = n] EXCEPT !.data = d] EXCEPT !.owns = TRUE]
    OBVIOUS
  <2> DEFINE r1 == [buf[b] EXCEPT !.length = n]
  <2>2. r1 \in BufferStates /\ r1.live /\ r1.length = n /\ r1.free = buf[b].free
    BY <1>1, <1>2 DEF BufferStates
  <2> HIDE DEF r1
  <2> DEFINE r2 == [r1 EXCEPT !.data = d]
  <2>3. r2 \in BufferStates /\ r2.live /\ r2.length = n /\ r2.free = buf[b].free /\ r2.data = d
    BY <1>5, <2>2 DEF BufferStates
  <2> HIDE DEF r2
  <2> DEFINE r3 == [r2 EXCEPT !.owns = TRUE]
  <2>4. /\ r3 \in BufferStates /\ r3.live /\ r3.length = n /\ r3.free = buf[b].free
        /\ r3.data = d /\ r3.owns
    BY <2>3 DEF BufferStates
  <2>5. r = r3
    BY <2>1 DEF r1, r2
  <2> HIDE DEF r3
  <2> QED BY <2>4, <2>5
<1>9. buf' = [buf EXCEPT ![b] = r]
  <2>1. buf' = [[[buf EXCEPT ![b].length = n] EXCEPT ![b].data = d] EXCEPT ![b].owns = TRUE]
    BY <1>1
  <2> QED BY <1>2, <2>1 DEF TypeOK
<1> HIDE DEF r
<1>10. buf'[b] = r
  BY <1>2, <1>9 DEF TypeOK
<1>11. Own(b)' = d
  BY <1>2, <1>8, <1>10 DEF Own
<1>12. /\ mem' \in [Blocks \cup {UserBlock} -> [live : BOOLEAN, cells : Seq(Cells)]]
       /\ mem'[UserBlock] = mem[UserBlock]
       /\ \A e \in Blocks : e # d => mem'[e] = mem[e]
       /\ fault' = NoFault /\ d # Null => mem'[d].live /\ Len(mem'[d].cells) = n
  <2>1. /\ Block(cells) \in [live : BOOLEAN, cells : Seq(Cells)] /\ Block(cells).live
        /\ Block(cells).cells = cells
    BY <1>7 DEF Block
  <2>2. CASE CanRead(b, kept)
    <3>1. mem' = [mem EXCEPT ![d] = Block(cells)]
      BY <1>1, <2>2
    <3> DEFINE k == Block(cells)
    <3>2. k \in [live : BOOLEAN, cells : Seq(Cells)] /\ k.live /\ Len(k.cells) = n
      BY <1>7, <2>1
    <3> HIDE DEF k
    <3>3. mem \in [Blocks \cup {UserBlock} -> [live : BOOLEAN, cells : Seq(Cells)]]
      BY <1>2 DEF TypeOK
    <3>4. mem' = [mem EXCEPT ![d] = k]
      BY <3>1 DEF k
    <3>5. d \in Blocks => mem'[d] = k
      BY <3>3, <3>4
    <3> QED BY <1>5, <3>2, <3>3, <3>4, <3>5
  <2>3. CASE ~CanRead(b, kept)
    BY <1>1, <1>2, <2>3 DEF TypeOK, NoFault
  <2> QED BY <2>2, <2>3
<1>13. /\ fault' \in [kind : {"none", "double", "null", "read", "held"}, of : Objects \cup {Null}]
       /\ fault'.kind # "double"
       /\ fault' # NoFault => fault'.of \in spoiled'
  BY <1>1, <1>2, <1>6 DEF NoFault, TypeOK
<1>14. Hands(b, b)
  <2>1. CASE buf[b].owns
    <3>1. Own(b) = d /\ (d = Null \/ (d \in Blocks /\ mem[d].live))
      BY <1>5, <2>1
    <3>2. \A e \in Blocks : ~mem[e].live /\ mem'[e].live => d = e
      BY <1>12
    <3> QED BY <1>11, <1>12, <3>1, <3>2 DEF Hands
  <2>2. CASE ~buf[b].owns
    <3>1. Own(b) = Null /\ d = Fresh
      BY <1>5, <2>2
    <3>2. \A e \in Blocks : ~mem[e].live /\ mem'[e].live => d = e
      BY <1>12
    <3> QED BY <1>4, <1>11, <1>12, <3>1, <3>2 DEF Hands
  <2> QED BY <2>1, <2>2
<1>15. ASSUME fault' = NoFault PROVE BufferSound(b)'
  <2> SUFFICES ASSUME b \notin spoiled' PROVE BufferSound(b)'
    BY DEF BufferSound
  <2>1. buf[b].owns /\ b \notin spoiled
    BY <1>1
  <2>2. BufferSound(b)
    BY DEF IInv, Sound
  <2>3. buf[b].free /\ d # Null
    BY <1>1, <1>5, <2>1, <2>2 DEF BufferSound
  <2> QED BY <1>8, <1>10, <1>12, <1>15, <2>3 DEF BufferSound
<1>16. /\ refs' \in [Buffers -> Nat] /\ spoiled' \subseteq Objects
       /\ \A q \in Objects \ {b} : q \in spoiled' <=> q \in spoiled
       /\ \A q \in Buffers : refs'[q] > 0 => refs[q] > 0
  BY <1>1, <1>2 DEF TypeOK
<1>17. \A e \in Blocks : mem[e].live /\ e # Own(b) => mem'[e] = mem[e]
  BY <1>4, <1>5, <1>12
<1> QED BY <1>1, <1>8, <1>9, <1>12, <1>13, <1>14, <1>15, <1>16, <1>17, OneBuffer

\* ~Buffer (Buffer.cc:58-63).
LEMMA DestroyedStep ==
  ASSUME IInv, fault = NoFault, NEW b \in Buffers, NEW end,
         buf[b].live, Destroyed(b, end), end = fault \/ end = Thrown(b),
         UNCHANGED <<arr, expect>>, refs' \in [Buffers -> Nat],
         end = fault => refs'[b] = 0,
         \A q \in Buffers : refs'[q] > 0 => refs[q] > 0
  PROVE  Good(b, b)
<1>1. TypeOK /\ UserKept /\ b \notin Arrays /\ b \in Objects /\ BufferSound(b)
  BY StorageAssumption DEF IInv, Sound, Objects
<1>2. NoBuffer \in BufferStates /\ ~NoBuffer.live
  BY DEF NoBuffer, BufferStates
<1>3. buf' = [buf EXCEPT ![b] = NoBuffer]
  BY DEF Destroyed
<1>4. buf'[b] = NoBuffer
  BY <1>1, <1>3 DEF TypeOK
<1>5. Own(b)' = Null
  BY <1>1, <1>2, <1>4 DEF Own
<1>6. Own(b) = IF buf[b].owns THEN buf[b].data ELSE Null
  BY <1>1 DEF Own
<1>10. /\ \A q \in Buffers : refs'[q] > 0 => refs[q] > 0 \/ (q = b /\ NoBuffer.live)
       /\ end = NoFault => ~(refs'[b] > 0)
  BY <1>1
<1>11. /\ end \in [kind : {"none", "double", "null", "read", "held"}, of : Objects \cup {Null}]
       /\ end.kind # "double"
       /\ end # NoFault => end.kind = "held"
  BY <1>1 DEF NoFault, Thrown
<1>7. CASE Own(b) # Null /\ buf[b].free
  <2>1. /\ mem' = Released(mem, Own(b)) /\ spoiled' = spoiled \ {b}
        /\ IF mem[Own(b)].live THEN fault' = end ELSE Fault("double", b)
    BY <1>6, <1>7 DEF Destroyed
  <2>2. /\ mem' \in [Blocks \cup {UserBlock} -> [live : BOOLEAN, cells : Seq(Cells)]]
        /\ mem'[UserBlock] = mem[UserBlock]
        /\ \A d \in Blocks : d # Own(b) => mem'[d] = mem[d]
        /\ ~mem'[Own(b)].live
        /\ fault' = end
    <3>1. mem[Own(b)].live /\ Own(b) \in Blocks /\ Own(b) # UserBlock
      BY <1>1, <1>7, StorageAssumption DEF UserKept, IInv, Sound, Exclusive
    <3>2. Freed \in [live : BOOLEAN, cells : Seq(Cells)] /\ ~Freed.live
      BY EmptySeq DEF Freed
    <3> QED BY <1>1, <2>1, <3>1, <3>2 DEF Released, TypeOK
  <2>3. Hands(b, b)
    BY <1>5, <2>2 DEF Hands
  <2>4. /\ fault' \in [kind : {"none", "double", "null", "read", "held"}, of : Objects \cup {Null}]
        /\ fault'.kind # "double"
        /\ fault' # NoFault => fault'.kind = "held"
        /\ spoiled' \subseteq Objects
        /\ \A q \in Objects \ {b} : q \in spoiled' <=> q \in spoiled
    BY <1>1, <1>11, <2>1, <2>2 DEF TypeOK
  <2>5. BufferSound(b)'
    BY <1>2, <1>4 DEF BufferSound
  <2>6. \A d \in Blocks : mem[d].live /\ d # Own(b) => mem'[d] = mem[d]
    BY <2>2
  <2>7. fault' # NoFault => fault'.kind = "held" \/ fault'.of \in spoiled'
    BY <2>4
  <2>8. /\ fault' = NoFault => BufferSound(b)'
        /\ fault' = NoFault /\ refs'[b] > 0 => NoBuffer.live
    BY <1>10, <2>2, <2>5
  <2> QED BY <1>2, <1>3, <1>10, <2>2, <2>3, <2>4, <2>6, <2>7, <2>8, OneBuffer
<1>8. CASE Own(b) # Null /\ ~buf[b].free
  <2>1. mem' = mem /\ fault' = [kind |-> "null", of |-> b] /\ spoiled' = spoiled
    BY <1>6, <1>8 DEF Destroyed, Fault
  <2>2. b \in spoiled
    BY <1>1, <1>6, <1>8 DEF BufferSound
  <2>3. Hands(b, b)
    BY <1>5, <2>1, <2>2 DEF Hands, NoFault
  <2>4. /\ fault' \in [kind : {"none", "double", "null", "read", "held"}, of : Objects \cup {Null}]
        /\ fault'.kind # "double" /\ fault'.of \in spoiled' /\ fault' # NoFault
        /\ spoiled' \subseteq Objects
        /\ \A q \in Objects \ {b} : q \in spoiled' <=> q \in spoiled
    BY <1>1, <2>1, <2>2 DEF NoFault, TypeOK
  <2>5. mem' \in [Blocks \cup {UserBlock} -> [live : BOOLEAN, cells : Seq(Cells)]]
    BY <1>1, <2>1 DEF TypeOK
  <2>6. \A d \in Blocks : mem[d].live /\ d # Own(b) => mem'[d] = mem[d]
    BY <2>1
  <2>7. fault' # NoFault => fault'.kind = "held" \/ fault'.of \in spoiled'
    BY <2>4
  <2>8. /\ fault' = NoFault => BufferSound(b)'
        /\ fault' = NoFault /\ refs'[b] > 0 => NoBuffer.live
    BY <2>4
  <2> QED BY <1>2, <1>3, <1>10, <2>1, <2>3, <2>4, <2>5, <2>6, <2>7, <2>8, OneBuffer
<1>9. CASE Own(b) = Null
  <2>1. mem' = mem /\ fault' = end /\ spoiled' = spoiled \ {b}
    BY <1>6, <1>9 DEF Destroyed
  <2>3. Hands(b, b)
    BY <1>5, <1>9, <2>1 DEF Hands
  <2>4. /\ fault' \in [kind : {"none", "double", "null", "read", "held"}, of : Objects \cup {Null}]
        /\ fault'.kind # "double"
        /\ fault' # NoFault => fault'.kind = "held"
        /\ spoiled' \subseteq Objects
        /\ \A q \in Objects \ {b} : q \in spoiled' <=> q \in spoiled
        /\ mem' \in [Blocks \cup {UserBlock} -> [live : BOOLEAN, cells : Seq(Cells)]]
    BY <1>1, <1>11, <2>1 DEF TypeOK
  <2>5. BufferSound(b)'
    BY <1>2, <1>4 DEF BufferSound
  <2>6. \A d \in Blocks : mem[d].live /\ d # Own(b) => mem'[d] = mem[d]
    BY <2>1
  <2>7. fault' # NoFault => fault'.kind = "held" \/ fault'.of \in spoiled'
    BY <2>4
  <2>8. /\ fault' = NoFault => BufferSound(b)'
        /\ fault' = NoFault /\ refs'[b] > 0 => NoBuffer.live
    BY <1>10, <2>1, <2>5
  <2> QED BY <1>2, <1>3, <1>10, <2>1, <2>3, <2>4, <2>6, <2>7, <2>8, OneBuffer
<1> QED BY <1>7, <1>8, <1>9

\* A buffer goes out of scope, or is deleted, with or without references to it
\* (Buffer.cc:58-63, RefCountedObject.cc:12-18).
LEMMA DestroyBufferStep ==
  ASSUME IInv, fault = NoFault, NEW b \in Buffers, DestroyBuffer(b)
  PROVE  Good(b, b)
<1> DEFINE end == IF refs[b] > 0 THEN Thrown(b) ELSE fault
<1>1. buf[b].live /\ Destroyed(b, end) /\ UNCHANGED <<arr, expect, refs>>
  BY DEF DestroyBuffer, Others
<1>2. refs' \in [Buffers -> Nat] /\ (end = fault => refs'[b] = 0)
  BY <1>1 DEF IInv, TypeOK, Thrown, NoFault
<1> QED BY <1>1, <1>2, DestroyedStep

\* Counting references changes nothing else.
LEMMA CountStep ==
  ASSUME IInv, fault = NoFault, NEW b \in Buffers, buf[b].live,
         UNCHANGED <<mem, arr, buf, expect, spoiled, fault>>,
         refs' \in [Buffers -> Nat], \A q \in Buffers \ {b} : refs'[q] = refs[q]
  PROVE  Good(b, b)
<1>1. TypeOK /\ UserKept /\ Exclusive /\ BufferSound(b) /\ HeldIsAlive /\ b \in Objects
      /\ b \notin Arrays
  BY StorageAssumption DEF IInv, Sound, Objects
<1>2. TypeOK'
  BY <1>1 DEF TypeOK
<1>3. Touches(b, b)
  BY DEF Touches
<1>4. Own(b)' = Own(b)
  BY DEF Own
<1>5. Hands(b, b)
  BY <1>1, <1>4 DEF Hands, Exclusive
<1>6. BufferSound(b)'
  BY <1>1 DEF BufferSound
<1>7. HeldIsAlive' /\ OnlySpoiledFault' /\ fault'.kind # "double"
  BY <1>1 DEF HeldIsAlive, OnlySpoiledFault, NoFault
<1> QED BY <1>1, <1>2, <1>3, <1>5, <1>6, <1>7 DEF Good

\* add_ref counts one more (RefCountedObject.hh:54-58).
LEMMA AddRefStep ==
  ASSUME IInv, fault = NoFault, NEW b \in Buffers, AddRef(b)
  PROVE  Good(b, b)
<1>1. /\ buf[b].live /\ refs' = [refs EXCEPT ![b] = @ + 1]
      /\ UNCHANGED <<mem, arr, buf, expect, spoiled, fault>>
  BY DEF AddRef, Others
<1>2. refs' \in [Buffers -> Nat] /\ \A q \in Buffers \ {b} : refs'[q] = refs[q]
  BY <1>1 DEF IInv, TypeOK
<1> QED BY <1>1, <1>2, CountStep

\* release deletes with the last reference only (RefCountedObject.hh:66-71).
LEMMA ReleaseStep ==
  ASSUME IInv, fault = NoFault, NEW b \in Buffers, Release(b)
  PROVE  Good(b, b)
<1>1. /\ buf[b].live /\ refs[b] > 0 /\ refs' = [refs EXCEPT ![b] = @ - 1]
      /\ UNCHANGED <<arr, expect>>
      /\ refs[b] = 1 => Destroyed(b, fault)
      /\ refs[b] # 1 => UNCHANGED <<mem, buf, spoiled, fault>>
  BY DEF Release, Others
<1>2. refs \in [Buffers -> Nat]
  BY DEF IInv, TypeOK
<1>3. /\ refs' \in [Buffers -> Nat] /\ refs'[b] = refs[b] - 1
      /\ \A q \in Buffers \ {b} : refs'[q] = refs[q]
  BY <1>1, <1>2
<1>4. CASE refs[b] = 1
  <2>1. refs'[b] = 0 /\ \A q \in Buffers : refs'[q] > 0 => refs[q] > 0
    BY <1>2, <1>3, <1>4
  <2> QED BY <1>1, <1>3, <1>4, <2>1, DestroyedStep
<1>5. CASE refs[b] # 1
  BY <1>1, <1>3, <1>5, CountStep
<1> QED BY <1>4, <1>5

\* b takes what c has, and c is left with r, which owns nothing; what b owned
\* is freed if b can free it.
LEMMA TakeBuffer ==
  ASSUME IInv, fault = NoFault, NEW b \in Buffers, NEW c \in Buffers, NEW r \in BufferStates,
         buf[c].live, r.live, ~r.owns,
         buf' \in [Buffers -> BufferStates], buf'[c] = r, b # c => buf'[b] = buf[c],
         \A q \in Buffers \ {b, c} : buf'[q] = buf[q],
         UNCHANGED <<arr, expect, refs>>,
         \/ mem' = mem /\ fault' = fault /\ (Own(b) = Null \/ b \in spoiled)
         \/ Own(b) # Null /\ mem' = Released(mem, Own(b)) /\ FreeFault(Own(b), b),
         spoiled' \subseteq Objects, c \in spoiled',
         c \in spoiled => b \in spoiled',
         \A q \in Objects \ {b, c} : q \in spoiled' <=> q \in spoiled
  PROVE  Good(b, c)
<1>1. /\ TypeOK /\ UserKept /\ Exclusive /\ BufferSound(c) /\ HeldIsAlive
      /\ b \in Objects /\ c \in Objects /\ b \notin Arrays /\ c \notin Arrays
  BY StorageAssumption DEF IInv, Sound, Objects
<1>2. Own(c)' = Null
  BY <1>1 DEF Own
<1>3. b # c => Own(b)' = Own(c)
  BY <1>1 DEF Own
<1>4. /\ mem' \in [Blocks \cup {UserBlock} -> [live : BOOLEAN, cells : Seq(Cells)]]
      /\ mem'[UserBlock] = mem[UserBlock]
      /\ \A d \in Blocks : d # Own(b) => mem'[d] = mem[d]
      /\ Own(b) # Null => ~mem'[Own(b)].live \/ b \in spoiled
      /\ \A d \in Blocks : ~mem[d].live => ~mem'[d].live
      /\ fault' = fault
  <2>1. CASE mem' = mem /\ fault' = fault /\ (Own(b) = Null \/ b \in spoiled)
    BY <1>1, <2>1 DEF TypeOK
  <2>2. CASE Own(b) # Null /\ mem' = Released(mem, Own(b)) /\ FreeFault(Own(b), b)
    BY <1>1, <2>2, FreeStep
  <2> QED BY <2>1, <2>2
<1>5. TypeOK'
  BY <1>1, <1>4 DEF TypeOK, BufferStates
<1>6. Touches(b, c)
  BY <1>1, <1>4 DEF Touches
<1>7. b # c /\ Own(c) # Null => Own(c) \in Blocks /\ mem[Own(c)].live /\ mem'[Own(c)] = mem[Own(c)]
  BY <1>1, <1>4 DEF UserKept, Exclusive
<1>8. Hands(b, c)
  <2>1. CASE b = c
    BY <1>2, <1>4, <2>1 DEF Hands
  <2>2. CASE b # c
    BY <1>2, <1>3, <1>4, <1>7, <2>2 DEF Hands
  <2> QED BY <2>1, <2>2
<1>9. BufferSound(c)'
  BY DEF BufferSound
<1>10. ASSUME b # c PROVE BufferSound(b)'
  <2> SUFFICES ASSUME b \notin spoiled' PROVE BufferSound(b)'
    BY DEF BufferSound
  <2>1. c \notin spoiled /\ buf'[b] = buf[c]
    BY <1>10
  <2>2. CASE buf[c].owns
    <3>1. buf[c].free /\ buf[c].data # Null /\ Len(mem[buf[c].data].cells) = buf[c].length
      BY <1>1, <2>1, <2>2 DEF BufferSound
    <3>2. Own(c) = buf[c].data
      BY <1>1, <2>2 DEF Own
    <3>3. mem'[buf[c].data] = mem[buf[c].data]
      BY <1>7, <1>10, <3>1, <3>2
    <3> QED BY <2>1, <2>2, <3>1, <3>3 DEF BufferSound
  <2>3. CASE ~buf[c].owns
    BY <1>1, <2>1, <2>3 DEF BufferSound
  <2> QED BY <2>2, <2>3
<1>11. HeldIsAlive'
  <2>1. ASSUME NEW q \in Buffers, refs'[q] > 0 PROVE buf'[q].live
    <3>1. buf[q].live
      BY <1>1, <2>1 DEF HeldIsAlive
    <3> QED BY <3>1
  <2> QED BY <2>1 DEF HeldIsAlive
<1>12. OnlySpoiledFault' /\ fault'.kind # "double"
  BY <1>4 DEF OnlySpoiledFault, NoFault
<1> QED BY <1>1, <1>5, <1>6, <1>8, <1>9, <1>10, <1>11, <1>12 DEF Good

\* Buffer(Buffer&&): both point to the memory, one owns it (Buffer.cc:33-40).
LEMMA MoveBufferStep ==
  ASSUME IInv, fault = NoFault, NEW b \in Buffers, NEW c \in Buffers, MoveBuffer(b, c)
  PROVE  Good(b, c)
<1> DEFINE r == [buf[c] EXCEPT !.owns = FALSE]
<1>1. /\ ~buf[b].live /\ buf[c].live /\ b # c
      /\ buf' = [[buf EXCEPT ![b] = buf[c]] EXCEPT ![c].owns = FALSE]
      /\ spoiled' = spoiled \cup {c} \cup (IF c \in spoiled THEN {b} ELSE {})
      /\ UNCHANGED <<arr, expect, mem, refs, fault>>
  BY DEF MoveBuffer, Others
<1>2. TypeOK /\ buf \in [Buffers -> BufferStates] /\ b \in Objects /\ c \in Objects /\ b \notin Arrays
  BY StorageAssumption DEF IInv, TypeOK, Objects, BufferStates
<1>3. r \in BufferStates /\ r.live /\ ~r.owns
  BY <1>1, <1>2 DEF BufferStates
<1>4. buf' = [[buf EXCEPT ![b] = buf[c]] EXCEPT ![c] = r]
  BY <1>1, <1>2
<1> HIDE DEF r
<1>5. /\ buf' \in [Buffers -> BufferStates] /\ buf'[c] = r /\ buf'[b] = buf[c]
      /\ \A q \in Buffers \ {b, c} : buf'[q] = buf[q]
  BY <1>1, <1>2, <1>3, <1>4
<1>6. Own(b) = Null
  BY <1>1, <1>2 DEF Own
<1>7. /\ spoiled' \subseteq Objects /\ c \in spoiled'
      /\ c \in spoiled => b \in spoiled'
      /\ \A q \in Objects \ {b, c} : q \in spoiled' <=> q \in spoiled
  BY <1>1, <1>2 DEF TypeOK
<1> QED BY <1>1, <1>3, <1>5, <1>6, <1>7, TakeBuffer

\* reset frees what the buffer owned and takes what the other has
\* (Buffer.cc:83-96).
LEMMA ResetBufferStep ==
  ASSUME IInv, fault = NoFault, NEW b \in Buffers, NEW c \in Buffers, ResetBuffer(b, c)
  PROVE  Good(b, c)
<1> DEFINE r == [buf[c] EXCEPT !.data = Null, !.owns = FALSE, !.free = FALSE]
           frees == buf[b].data # Null /\ buf[b].owns /\ buf[b].free
<1>1. /\ buf[b].live /\ buf[c].live
      /\ buf' = [[buf EXCEPT ![b] = buf[c]] EXCEPT ![c] = r]
      /\ spoiled' = (IF c \in spoiled THEN spoiled \cup {b} ELSE spoiled \ {b}) \cup {c}
      /\ UNCHANGED <<arr, expect, refs>>
      /\ frees => mem' = Released(mem, buf[b].data) /\ FreeFault(buf[b].data, b)
      /\ ~frees => mem' = mem /\ fault' = fault
  BY DEF ResetBuffer, ResetWith, Others
<1>2. /\ TypeOK /\ buf \in [Buffers -> BufferStates] /\ b \in Objects /\ c \in Objects
      /\ b \notin Arrays /\ BufferSound(b)
  BY StorageAssumption DEF IInv, Sound, TypeOK, Objects, BufferStates
<1>3. r \in BufferStates /\ r.live /\ ~r.owns
  <2> DEFINE r1 == [buf[c] EXCEPT !.data = Null]
  <2>1. r1 \in BufferStates /\ r1.live
    BY <1>1, <1>2 DEF BufferStates
  <2> HIDE DEF r1
  <2> DEFINE r2 == [r1 EXCEPT !.owns = FALSE]
  <2>2. r2 \in BufferStates /\ r2.live /\ ~r2.owns
    BY <2>1 DEF BufferStates
  <2> HIDE DEF r2
  <2> DEFINE r3 == [r2 EXCEPT !.free = FALSE]
  <2>3. r3 \in BufferStates /\ r3.live /\ ~r3.owns
    BY <2>2 DEF BufferStates
  <2>4. r = r3
    BY DEF r1, r2
  <2> HIDE DEF r3
  <2> QED BY <2>3, <2>4
<1> HIDE DEF r
<1>4. /\ buf' \in [Buffers -> BufferStates] /\ buf'[c] = r /\ (b # c => buf'[b] = buf[c])
      /\ \A q \in Buffers \ {b, c} : buf'[q] = buf[q]
  BY <1>1, <1>2, <1>3
<1>5. \/ mem' = mem /\ fault' = fault /\ (Own(b) = Null \/ b \in spoiled)
      \/ Own(b) # Null /\ mem' = Released(mem, Own(b)) /\ FreeFault(Own(b), b)
  <2>1. Own(b) = IF buf[b].owns THEN buf[b].data ELSE Null
    BY <1>1, <1>2 DEF Own
  <2>2. CASE frees
    BY <1>1, <2>1, <2>2
  <2>3. CASE ~frees
    BY <1>1, <1>2, <2>1, <2>3 DEF BufferSound
  <2> QED BY <2>2, <2>3
<1>6. /\ spoiled' \subseteq Objects /\ c \in spoiled'
      /\ c \in spoiled => b \in spoiled'
      /\ \A q \in Objects \ {b, c} : q \in spoiled' <=> q \in spoiled
  BY <1>1, <1>2 DEF TypeOK
<1> QED BY <1>1, <1>3, <1>4, <1>5, <1>6, TakeBuffer

-----------------------------------------------------------------------------
(* The theorems. *)

\* Every step is about two objects and leaves both as they should be.
LEMMA EveryStepIsGood ==
  ASSUME IInv, Next
  PROVE  fault = NoFault /\ \E o, p \in Objects : Good(o, p)
<1>0. fault = NoFault /\ (ArrayStep \/ BufferStep)
  BY DEF Next
<1>1. Arrays \subseteq Objects /\ Buffers \subseteq Objects
  BY DEF Objects
<1>2. CASE ArrayStep
  <2>1. PICK x \in Arrays :
          \/ \E n \in 0 .. MaxSize : NewArray(x, n) \/ Reserve(x, n)
          \/ \E v \in Values : PushArray(x, v)
          \/ ClearArray(x) \/ DestroyArray(x)
          \/ \E y \in Arrays : CopyArray(x, y) \/ AssignArray(x, y) \/ MoveArray(x, y)
    BY <1>2 DEF ArrayStep
  <2>2. Good(x, x) \/ \E y \in Arrays : Good(x, y)
    BY <1>0, <2>1, NewArrayStep, ReserveStep, PushArrayStep, ClearArrayStep, DestroyArrayStep,
       CopyArrayStep, AssignArrayStep, MoveArrayStep
  <2> QED BY <1>0, <1>1, <2>2
<1>3. CASE BufferStep
  <2>1. PICK b \in Buffers :
          \/ \E n \in 0 .. MaxSize : Borrow(b, n) \/ NewBuffer(b, n) \/ Resize(b, n)
          \/ \E c \in Buffers : CopyBuffer(b, c) \/ MoveBuffer(b, c) \/ ResetBuffer(b, c)
          \/ DestroyBuffer(b) \/ AddRef(b) \/ Release(b)
    BY <1>3 DEF BufferStep
  <2>2. Good(b, b) \/ \E c \in Buffers : Good(b, c)
    BY <1>0, <2>1, BorrowStep, NewBufferStep, ResizeStep, CopyBufferStep, MoveBufferStep,
       ResetBufferStep, DestroyBufferStep, AddRefStep, ReleaseStep
  <2> QED BY <1>0, <1>1, <2>2
<1> QED BY <1>0, <1>2, <1>3

\* At first there are no objects, and only the caller's memory.
LEMMA InitInv == Init => IInv
<1> SUFFICES ASSUME Init PROVE IInv
  OBVIOUS
<1>1. MaxSize \in Nat /\ UserBlock \notin Blocks
  BY StorageAssumption
<1>2. /\ Times(Byte, MaxSize) \in Seq(Cells) /\ Freed \in [live : BOOLEAN, cells : Seq(Cells)]
  BY <1>1, TimesIs, EmptySeq DEF Cells, Freed
<1>3. mem[UserBlock] = Block(Times(Byte, MaxSize)) /\ \A d \in Blocks : mem[d] = Freed
  BY <1>1 DEF Init, Block
<1>4. \A x \in Arrays : arr[x] = NoArray
  BY DEF Init
<1>5. \A b \in Buffers : buf[b] = NoBuffer
  BY DEF Init
<1>6. TypeOK
  <2>1. mem \in [Blocks \cup {UserBlock} -> [live : BOOLEAN, cells : Seq(Cells)]]
    BY <1>1, <1>2 DEF Init, Block
  <2>2. arr \in [Arrays -> [live : BOOLEAN, data : Blocks \cup {Null}, size : Nat, cap : Nat]]
    BY DEF Init, NoArray
  <2>3. buf \in [Buffers -> [live : BOOLEAN, data : Blocks \cup {UserBlock, Null},
                             length : Nat, owns : BOOLEAN, free : BOOLEAN]]
    BY DEF Init, NoBuffer
  <2>4. refs \in [Buffers -> Nat] /\ spoiled \subseteq Objects
    BY DEF Init
  <2>5. expect \in [Arrays -> Seq(Values)]
    BY EmptySeq DEF Init
  <2>6. fault \in [kind : {"none", "double", "null", "read", "held"}, of : Objects \cup {Null}]
    BY DEF Init, NoFault
  <2> QED BY <2>1, <2>2, <2>3, <2>4, <2>5, <2>6 DEF TypeOK
<1>7. \A o \in Objects : Own(o) = Null
  BY <1>4, <1>5 DEF Own, Objects, NoArray, NoBuffer
<1>8. UserKept /\ Exclusive
  BY <1>3, <1>7 DEF UserKept, Exclusive
<1>9. \A x \in Arrays : ArraySound(x)
  BY <1>4 DEF ArraySound, NoArray
<1>10. \A b \in Buffers : BufferSound(b)
  BY <1>5 DEF BufferSound, NoBuffer
<1>11. HeldIsAlive /\ OnlySpoiledFault /\ fault.kind # "double"
  BY DEF Init, HeldIsAlive, OnlySpoiledFault, NoFault
<1> QED BY <1>6, <1>8, <1>9, <1>10, <1>11 DEF IInv, Sound

\* The invariant holds in every state.
LEMMA Inductive == Spec => []IInv
<1>1. IInv /\ [Next]_vars => IInv'
  <2> SUFFICES ASSUME IInv, [Next]_vars PROVE IInv'
    OBVIOUS
  <2>1. CASE Next
    BY <2>1, EveryStepIsGood, GoodStep
  <2>2. CASE UNCHANGED vars
    BY <2>2 DEF vars, IInv, TypeOK, UserKept, Own, Sound, Exclusive, ArraySound, BufferSound,
                Load, HeldIsAlive, OnlySpoiledFault, NoFault
  <2> QED BY <2>1, <2>2
<1> QED BY InitInv, <1>1, PTL DEF Spec

\* Every state is well formed: the fields of arrays and buffers, and the memory
\* behind them, are of the kinds that SArray, Buffer and RefCountedObject give
\* them.
THEOREM TypeCorrect == Spec => []TypeOK
<1>1. IInv => TypeOK
  BY DEF IInv
<1> QED BY <1>1, Inductive, PTL

\* Memory has one owner: whatever is constructed, assigned, moved, resized and
\* destroyed, no block is freed twice or while another object owns it, and none
\* that a buffer borrows (SArray.hh:163, 223, Buffer.cc:33, 84).
THEOREM MemoryHasOneOwner == Spec => []OwnedOnce
<1>1. IInv => OwnedOnce
  <2> SUFFICES ASSUME IInv PROVE OwnedOnce
    OBVIOUS
  <2>0. TypeOK /\ UserKept /\ fault.kind # "double" /\ UserBlock \notin Blocks \cup {Null}
    BY StorageAssumption DEF IInv
  <2>1. \A d : \A o \in Owners(d) : o \in Objects /\ Own(o) = d
    BY StorageAssumption DEF Owners, Objects, Own
  <2>2. mem[UserBlock].live
    BY <2>0 DEF UserKept, Block
  <2>3. Owners(UserBlock) = {}
    BY <2>0, <2>1 DEF UserKept
  <2>4. ASSUME fault = NoFault, NEW d \in Blocks, NEW o \in Owners(d)
        PROVE  mem[d].live /\ \A p \in Owners(d) : o = p
    BY <2>1, <2>4, StorageAssumption DEF IInv, Sound, Exclusive
  <2> QED BY <2>0, <2>2, <2>3, <2>4 DEF OwnedOnce
<1> QED BY <1>1, Inductive, PTL

\* An array has the value it was given: whatever it went through, one that was
\* not spoiled holds what was put into it (SArray.hh:60-92, 163-239).
THEOREM ArraysHaveValues == Spec => []ValueSemantics
<1>1. IInv => ValueSemantics
  <2> SUFFICES ASSUME IInv, fault = NoFault, NEW x \in Arrays, arr[x].live, x \notin spoiled
               PROVE  /\ arr[x].size <= arr[x].cap
                      /\ Readable(Load(x)) /\ Load(x).cells = expect[x]
    BY DEF ValueSemantics
  <2>1. ArraySound(x)
    BY DEF IInv, Sound
  <2>2. Readable(Load(x)) /\ Load(x).cells = expect[x]
    BY SoundIsFit
  <2> QED BY <2>1, <2>2 DEF ArraySound
<1> QED BY <1>1, Inductive, PTL

\* Undefined behaviour needs a spoiled object: a null pointer or a stale one is
\* used only through an array or buffer that was moved from, assigned to itself
\* or resized while it borrowed (SArray.hh:229-236, Buffer.cc:33-40, 65-81).
THEOREM FaultsNeedSpoiled == Spec => []OnlySpoiledFault
<1>1. IInv => OnlySpoiledFault
  BY DEF IInv
<1> QED BY <1>1, Inductive, PTL

\* A buffer can be read over its whole length unless it was spoiled, and it is
\* there as long as somebody holds a reference, until it is destroyed in spite
\* of it (Buffer.cc:33-104, RefCountedObject.cc:12-18, RefCountedObject.hh:64).
THEOREM BuffersCanBeRead == Spec => []BuffersAreReadable
<1>1. ASSUME IInv PROVE BuffersAreReadable
  <2> SUFFICES ASSUME fault = NoFault, NEW b \in Buffers
               PROVE  /\ refs[b] > 0 => buf[b].live
                      /\ buf[b].live /\ b \notin spoiled => CanRead(b, buf[b].length)
    BY DEF BuffersAreReadable
  <2>1. refs[b] > 0 => buf[b].live
    BY <1>1 DEF IInv, HeldIsAlive
  <2>2. buf[b].length \in Nat
    BY <1>1 DEF IInv, TypeOK
  <2>3. ASSUME buf[b].live, b \notin spoiled PROVE CanRead(b, buf[b].length)
    BY <1>1, <2>2, <2>3, SoundIsRead
  <2> QED BY <2>1, <2>3
<1> QED BY <1>1, Inductive, PTL

\* No memory is lost: a step that takes a block from its owner frees it or
\* gives it to another, unless the owner was spoiled, and what malloc returns
\* gets an owner in the same step.
THEOREM NoMemoryLost == Spec => NothingLeaks
<1> DEFINE A == \A d \in Blocks :
       /\ mem[d].live /\ mem'[d].live /\ Owners(d) # {}
            => Owners(d)' # {} \/ Owners(d) \cap spoiled # {}
       /\ ~mem[d].live /\ mem'[d].live => Owners(d)' # {}
<1>2. IInv /\ [Next]_vars => [A]_vars
  <2> SUFFICES ASSUME IInv, Next PROVE A
    OBVIOUS
  <2>1. PICK o \in Objects, p \in Objects : Good(o, p)
    BY EveryStepIsGood
  <2>2. TypeOK /\ UserKept /\ Exclusive
    BY EveryStepIsGood DEF IInv, Sound
  <2>3. Touches(o, p) /\ Hands(o, p)
    BY <2>1 DEF Good
  <2>4. \A q \in Objects \ {o, p} : Own(q)' = Own(q)
    BY <2>2, <2>3, HeapStep
  <2>5. ASSUME NEW d \in Blocks PROVE Owners(d) = {q \in Objects : Own(q) = d}
                                  /\ Owners(d)' = {q \in Objects : Own(q)' = d}
    BY StorageAssumption DEF Owners, Objects, Own
  <2>6. ASSUME NEW d \in Blocks, ~mem[d].live, mem'[d].live PROVE Owners(d)' # {}
    BY <2>3, <2>5, <2>6 DEF Hands
  <2>7. ASSUME NEW d \in Blocks, mem[d].live, mem'[d].live, NEW q \in Objects, Own(q) = d
        PROVE  (\E z \in Objects : Own(z)' = d) \/ q \in spoiled
    <3>1. d # Null
      BY StorageAssumption
    <3>2. CASE q = o
      BY <2>3, <2>7, <3>1, <3>2 DEF Hands
    <3>3. CASE q # o /\ q = p
      BY <2>3, <2>7, <3>1, <3>3 DEF Hands
    <3>4. CASE q # o /\ q # p
      BY <2>4, <2>7, <3>4
    <3> QED BY <3>2, <3>3, <3>4
  <2> QED BY <2>5, <2>6, <2>7
<1> HIDE DEF A
<1>3. Spec => [][A]_vars
  BY <1>2, Inductive, PTL DEF Spec
<1> QED BY <1>3 DEF A, NothingLeaks
=============================================================================
