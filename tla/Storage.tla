------------------------------ MODULE Storage ------------------------------
(***************************************************************************)
(* Who owns which memory: util::SArray (growing arrays), util::Buffer      *)
(* (byte buffers that own their memory or borrow it) and RefCountedObject  *)
(* (the count an intrusive_ptr to a buffer keeps).  Every constructor,     *)
(* assignment and destructor of the two classes is an action.              *)
(*                                                                         *)
(* Of a block, the elements constructed in it are kept (for a buffer, its  *)
(* bytes, all alike); Garbage is memory read before it was written.        *)
(* `expect` is what an array that is not spoiled should hold; `spoiled`    *)
(* holds the objects that something was moved out of, that were assigned   *)
(* to themselves, or that were resized while they borrowed.                *)
(***************************************************************************)
EXTENDS Naturals, SequencesExt

CONSTANTS Arrays, Buffers,  \* variables of the two types
          Blocks,           \* addresses malloc may return
          UserBlock,        \* memory of the caller that buffers borrow
          Values, Byte, Garbage, Null,
          MaxSize,          \* elements or bytes of an object
          MaxRefs           \* intrusive_ptrs to one buffer

ASSUME StorageAssumption ==
  /\ UserBlock \notin Blocks /\ Null \notin Blocks \cup {UserBlock}
  /\ Arrays \cap Buffers = {} /\ Null \notin Arrays \cup Buffers
  /\ {Byte, Garbage} \cap Values = {} /\ Byte # Garbage
  /\ MaxSize \in Nat /\ MaxRefs \in Nat

VARIABLES mem,      \* [live, cells] of every block
          arr,      \* [live, data, size, cap] of every array
          buf,      \* [live, data, length, owns, free] of every buffer
          refs,     \* refCount of every buffer
          expect, spoiled,
          fault     \* [kind, of]: undefined behaviour reached, and the object

vars == <<mem, arr, buf, refs, expect, spoiled, fault>>

Objects == Arrays \cup Buffers
NoFault == [kind |-> "none", of |-> Null]
Times(c, n) == [i \in 1..n |-> c]
Freed == [live |-> FALSE, cells |-> <<>>]
NoArray == [live |-> FALSE, data |-> Null, size |-> 0, cap |-> 0]
NoBuffer == [live |-> FALSE, data |-> Null, length |-> 0, owns |-> FALSE,
             free |-> FALSE]

Init ==
  /\ mem = [b \in Blocks \cup {UserBlock} |->
              IF b = UserBlock THEN [live |-> TRUE, cells |-> Times(Byte, MaxSize)]
                               ELSE Freed]
  /\ arr = [x \in Arrays |-> NoArray]
  /\ buf = [b \in Buffers |-> NoBuffer]
  /\ refs = [b \in Buffers |-> 0]
  /\ expect = [x \in Arrays |-> <<>>]
  /\ spoiled = {}
  /\ fault = NoFault

Fresh == CHOOSE b \in Blocks : ~mem[b].live
CanAllocate == \E b \in Blocks : ~mem[b].live
Block(cells) == [live |-> TRUE, cells |-> cells]

(* free(): of a block that is gone already it is a double free. *)
Released(m, b) == [m EXCEPT ![b] = Freed]
Fault(kind, o) == fault' = [kind |-> kind, of |-> o]
FreeFault(b, o) == IF mem[b].live THEN fault' = fault ELSE Fault("double", o)

-----------------------------------------------------------------------------
(* SArray.  An array in the making: its fields, the cells behind `data`, and *)
(* whether a null pointer was used.                                          *)

Load(x) == [data |-> arr[x].data, size |-> arr[x].size, cap |-> arr[x].cap,
            cells |-> IF arr[x].data = Null THEN <<>> ELSE mem[arr[x].data].cells,
            ok |-> TRUE]

\* ensure_capacity: twice what is missing, or just that for an empty array.
\* realloc of a null pointer gives memory of which only the tail is cleared:
\* what the array takes for its elements is garbage.
Grown(l, n) ==
  [l EXCEPT !.cap = IF @ > 0 THEN @ + 2 * (n - @) ELSE n,
            !.data = IF @ = Null THEN Fresh ELSE @,
            !.cells = IF l.data = Null THEN Times(Garbage, l.size) ELSE @]

\* A slip in it: one element too late.
GrowsLate(l, n) == IF l.cap + 1 >= n THEN l ELSE Grown(l, n)

ensure_capacity(l, n) == IF l.cap >= n THEN l ELSE Grown(l, n)

\* push and emplace: placement new at data + size.
push(l, v) ==
  LET r == ensure_capacity(l, l.size + 1)
  IN IF r.data = Null THEN [r EXCEPT !.ok = FALSE]
     ELSE [r EXCEPT !.size = @ + 1, !.cells = Append(@, v)]

clear(l) == IF l.data = Null THEN l ELSE [l EXCEPT !.size = 0, !.cells = <<>>]

Readable(l) == l.size = 0 \/ l.data # Null

\* The copying loops: emplace(s[i]) for each element of s.
EmplaceAll(l, s) == IF Readable(s) THEN FoldLeft(push, l, s.cells)
                                   ELSE [l EXCEPT !.ok = FALSE]

Store(x, l) ==
  /\ arr' = [arr EXCEPT ![x] = [live |-> TRUE, data |-> l.data, size |-> l.size,
                                cap |-> l.cap]]
  /\ mem' = IF l.data = Null THEN mem ELSE [mem EXCEPT ![l.data] = Block(l.cells)]
  /\ IF l.ok THEN fault' = fault ELSE Fault("null", x)

Bounded(l) == l.cap <= MaxSize + 2

\* SArray(size_t), with the default constructor as its case 0.
Constructed(n) ==
  [data |-> IF n > 0 THEN Fresh ELSE Null, size |-> 0, cap |-> n,
   cells |-> <<>>, ok |-> TRUE]

NewArray(x, n) ==
  /\ ~arr[x].live /\ CanAllocate
  /\ Store(x, Constructed(n))
  /\ expect' = [expect EXCEPT ![x] = <<>>]
  /\ UNCHANGED <<buf, refs, spoiled>>

PushArray(x, v) ==
  /\ arr[x].live /\ arr[x].size < MaxSize /\ CanAllocate
  /\ Bounded(push(Load(x), v))
  /\ Store(x, push(Load(x), v))
  /\ expect' = IF x \in spoiled THEN expect ELSE [expect EXCEPT ![x] = Append(@, v)]
  /\ UNCHANGED <<buf, refs, spoiled>>

Reserve(x, n) ==
  /\ arr[x].live /\ arr[x].cap < n /\ CanAllocate
  /\ Bounded(ensure_capacity(Load(x), n))
  /\ Store(x, ensure_capacity(Load(x), n))
  /\ UNCHANGED <<buf, refs, expect, spoiled>>

ClearArray(x) ==
  /\ arr[x].live
  /\ Store(x, clear(Load(x)))
  /\ expect' = [expect EXCEPT ![x] = <<>>]
  /\ UNCHANGED <<buf, refs, spoiled>>

CopyArray(x, y) ==
  /\ ~arr[x].live /\ arr[y].live /\ CanAllocate
  /\ Store(x, EmplaceAll(Constructed(arr[y].size), Load(y)))
  /\ expect' = [expect EXCEPT ![x] = expect[y]]
  /\ spoiled' = IF y \in spoiled THEN spoiled \cup {x} ELSE spoiled
  /\ UNCHANGED <<buf, refs>>

\* The copy-assignment, also of an array to itself: cleared before it is read.
AssignWith(x, y, emptied) ==
  /\ arr[x].live /\ arr[y].live /\ CanAllocate
  /\ LET l == ensure_capacity(emptied, arr[y].cap)
         s == IF x = y THEN l ELSE Load(y)
     IN Bounded(EmplaceAll(l, s)) /\ Store(x, EmplaceAll(l, s))
  /\ spoiled' = IF x = y \/ y \in spoiled THEN spoiled \cup {x} ELSE spoiled
  /\ expect' = [expect EXCEPT ![x] = IF x \in spoiled' THEN <<>> ELSE expect[y]]
  /\ UNCHANGED <<buf, refs>>

\* A slip in it: the old elements stay.
AssignKeepsOld(x, y) == AssignWith(x, y, Load(x))

AssignArray(x, y) == AssignWith(x, y, clear(Load(x)))

\* Moving takes the pointer and leaves size and capacity behind.  `into` is a
\* constructor's storage or, for the assignment, a live array.
MoveInto(x, y, source) ==
  /\ arr[y].live
  /\ LET frees == arr[x].live /\ arr[x].data # Null
         taken == IF x = y THEN Null ELSE arr[y].data
         n == IF x = y /\ frees THEN 0 ELSE arr[y].size
     IN /\ arr' = [[arr EXCEPT ![y].data = source] EXCEPT
                     ![x] = [live |-> TRUE, data |-> taken, size |-> n,
                             cap |-> arr[y].cap]]
        /\ mem' = IF frees THEN Released(mem, arr[x].data) ELSE mem
        /\ IF frees THEN FreeFault(arr[x].data, x) ELSE fault' = fault
  /\ expect' = [expect EXCEPT ![x] = IF x = y THEN <<>> ELSE expect[y],
                              ![y] = <<>>]
  /\ spoiled' = (IF y \in spoiled THEN spoiled ELSE spoiled \ {x}) \cup {y}
                  \cup (IF y \in spoiled THEN {x} ELSE {})
  /\ UNCHANGED <<buf, refs>>

\* A slip: the pointer moved from is not cleared.
MoveKeepsPointer(x, y) == x # y /\ MoveInto(x, y, arr[y].data)

\* The move constructor and the move assignment.
MoveArray(x, y) == (arr[x].live \/ x # y) /\ MoveInto(x, y, Null)

DestroyOf(x, frees) ==
  /\ arr[x].live
  /\ arr' = [arr EXCEPT ![x] = NoArray]
  /\ IF frees THEN mem' = Released(mem, arr[x].data) /\ FreeFault(arr[x].data, x)
              ELSE UNCHANGED <<mem, fault>>
  /\ expect' = [expect EXCEPT ![x] = <<>>]
  /\ spoiled' = spoiled \ {x}
  /\ UNCHANGED <<buf, refs>>

\* A slip in the destructor: nothing is freed for an array without elements.
DestroyWhenFilled(x) == DestroyOf(x, arr[x].data # Null /\ arr[x].size > 0)

DestroyArray(x) == DestroyOf(x, arr[x].data # Null)

-----------------------------------------------------------------------------
(* Buffer *)

Others == UNCHANGED <<arr, expect>>

Allocated(n) == [live |-> TRUE, data |-> Fresh, length |-> n, owns |-> TRUE,
                 free |-> TRUE]

\* What may be read of a buffer: n bytes where its pointer points.
CanRead(b, n) ==
  n = 0 \/ (buf[b].data # Null /\ n <= Len(mem[buf[b].data].cells))

\* Buffer() and Buffer(const char*, size_t), from_pointer.
Borrow(b, n) ==
  /\ ~buf[b].live
  /\ buf' = [buf EXCEPT ![b] = [NoBuffer EXCEPT !.live = TRUE, !.length = n,
                                !.data = IF n = 0 THEN Null ELSE UserBlock]]
  /\ Others /\ UNCHANGED <<mem, refs, spoiled, fault>>

\* Buffer(size_t), create; Buffer(char*, size_t, ff), take_ownership: memory
\* the caller allocated, with its function to free it.
NewBuffer(b, n) ==
  /\ ~buf[b].live /\ CanAllocate
  /\ mem' = [mem EXCEPT ![Fresh] = Block(Times(Byte, n))]
  /\ buf' = [buf EXCEPT ![b] = Allocated(n)]
  /\ Others /\ UNCHANGED <<refs, spoiled, fault>>

\* Buffer(const Buffer&), copy, copy_new.
CopyBuffer(b, c) ==
  /\ ~buf[b].live /\ buf[c].live /\ CanAllocate
  /\ buf' = [buf EXCEPT ![b] = Allocated(buf[c].length)]
  /\ IF CanRead(c, buf[c].length)
     THEN /\ mem' = [mem EXCEPT ![Fresh] = Block(Times(Byte, buf[c].length))]
          /\ fault' = fault
     ELSE mem' = mem /\ Fault("read", c)
  /\ Others /\ UNCHANGED <<refs, spoiled>>

\* Buffer(Buffer&&): both point to the memory, one owns it.
MoveBuffer(b, c) ==
  /\ ~buf[b].live /\ buf[c].live
  /\ buf' = [buf EXCEPT ![b] = buf[c], ![c].owns = FALSE]
  /\ spoiled' = spoiled \cup {c} \cup (IF c \in spoiled THEN {b} ELSE {})
  /\ Others /\ UNCHANGED <<mem, refs, fault>>


Least(m, n) == IF m < n THEN m ELSE n

\* resize, also to the length it has: a borrowing buffer comes to own a copy,
\* with the free function it has; an owning one is reallocated.
Resize(b, n) ==
  /\ buf[b].live /\ CanAllocate
  /\ LET kept == Least(buf[b].length, n)
         d == IF buf[b].owns THEN buf[b].data ELSE Fresh
     IN /\ buf' = [buf EXCEPT ![b].length = n, ![b].data = d, ![b].owns = TRUE]
        /\ IF CanRead(b, kept)
           THEN /\ mem' = [mem EXCEPT ![d] = Block(Times(Byte, n))]
                /\ fault' = fault
           ELSE mem' = mem /\ Fault("read", b)
  /\ spoiled' = IF buf[b].owns THEN spoiled ELSE spoiled \cup {b}
  /\ Others /\ UNCHANGED refs

\* reset and the move assignment, also of a buffer to itself.
ResetWith(b, c, taken) ==
  /\ buf[b].live /\ buf[c].live
  /\ LET old == buf[b]
         frees == old.data # Null /\ old.owns /\ old.free
     IN /\ mem' = IF frees THEN Released(mem, old.data) ELSE mem
        /\ IF frees THEN FreeFault(old.data, b) ELSE fault' = fault
  /\ buf' = [buf EXCEPT ![b] = taken, ![c] = [buf[c] EXCEPT !.data = Null,
                                              !.owns = FALSE, !.free = FALSE]]
  /\ spoiled' = (IF c \in spoiled THEN spoiled \cup {b} ELSE spoiled \ {b}) \cup {c}
  /\ Others /\ UNCHANGED refs

\* A slip in it: the length stays.
ResetKeepsLength(b, c) == ResetWith(b, c, [buf[c] EXCEPT !.length = buf[b].length])

ResetBuffer(b, c) == ResetWith(b, c, buf[c])

\* ~Buffer frees the memory, then ~RefCountedObject looks at the count; `end`
\* is what fault becomes there.
Destroyed(b, end) ==
  /\ buf' = [buf EXCEPT ![b] = NoBuffer]
  /\ IF buf[b].owns /\ buf[b].data # Null
     THEN IF buf[b].free
          THEN /\ mem' = Released(mem, buf[b].data) /\ spoiled' = spoiled \ {b}
               /\ IF mem[buf[b].data].live THEN fault' = end ELSE Fault("double", b)
          ELSE UNCHANGED <<mem, spoiled>> /\ Fault("null", b)
     ELSE spoiled' = spoiled \ {b} /\ UNCHANGED mem /\ fault' = end

\* The end of a buffer's scope, or a delete.  With references left it throws,
\* and they point to a buffer that is gone: the model ends there.
Thrown(b) == [kind |-> "held", of |-> b]

DestroyBuffer(b) ==
  /\ buf[b].live
  /\ Destroyed(b, IF refs[b] > 0 THEN Thrown(b) ELSE fault)
  /\ Others /\ UNCHANGED refs

\* intrusive_ptr_add_ref and intrusive_ptr_release.
AddRef(b) ==
  /\ buf[b].live /\ refs[b] < MaxRefs
  /\ refs' = [refs EXCEPT ![b] = @ + 1]
  /\ Others /\ UNCHANGED <<mem, buf, spoiled, fault>>

Release(b) ==
  /\ buf[b].live /\ refs[b] > 0
  /\ refs' = [refs EXCEPT ![b] = @ - 1]
  /\ IF refs[b] = 1 THEN Destroyed(b, fault) ELSE UNCHANGED <<mem, buf, spoiled, fault>>
  /\ Others

ArrayStep ==
  \E x \in Arrays :
    \/ \E n \in 0..MaxSize : NewArray(x, n) \/ Reserve(x, n)
    \/ \E v \in Values : PushArray(x, v)
    \/ ClearArray(x) \/ DestroyArray(x)
    \/ \E y \in Arrays : CopyArray(x, y) \/ AssignArray(x, y) \/ MoveArray(x, y)

BufferStep ==
  \E b \in Buffers :
    \/ \E n \in 0..MaxSize : Borrow(b, n) \/ NewBuffer(b, n) \/ Resize(b, n)
    \/ \E c \in Buffers : CopyBuffer(b, c) \/ MoveBuffer(b, c) \/ ResetBuffer(b, c)
    \/ DestroyBuffer(b) \/ AddRef(b) \/ Release(b)

Next == fault = NoFault /\ (ArrayStep \/ BufferStep)

Spec == Init /\ [][Next]_vars

-----------------------------------------------------------------------------
(* Properties *)

Owners(d) == {x \in Arrays : arr[x].live /\ arr[x].data = d}
               \cup {b \in Buffers : buf[b].live /\ buf[b].owns /\ buf[b].data = d}

\* No block has two owners, no owner's block was freed, and what a buffer
\* borrows is never freed by it: moving hands ownership over exactly
\* (SArray.hh:163, 223, Buffer.cc:33, 84).
OwnedOnce ==
  /\ mem[UserBlock].live /\ Owners(UserBlock) = {}
  /\ fault.kind # "double"
  /\ fault = NoFault => \A d \in Blocks, o, p \in Objects :
       o \in Owners(d) => mem[d].live /\ (p \in Owners(d) => o = p)

\* A block has an owner as long as it is allocated, unless a spoiled object
\* loses it: a buffer resized while it borrowed owns memory it has no function
\* to free (Buffer.cc:66-75, 85).
NothingLeaks ==
  [][\A d \in Blocks :
       /\ mem[d].live /\ mem'[d].live /\ Owners(d) # {}
            => Owners(d)' # {} \/ Owners(d) \cap spoiled # {}
       /\ ~mem[d].live /\ mem'[d].live => Owners(d)' # {}]_vars

\* An array that was not spoiled holds exactly what was put into it, however it
\* grew and whatever it was copied, assigned or moved from.
ValueSemantics ==
  fault = NoFault => \A x \in Arrays : arr[x].live /\ x \notin spoiled =>
    arr[x].size <= arr[x].cap /\ Readable(Load(x)) /\ Load(x).cells = expect[x]

\* A null or stale pointer is used only through an object that was spoiled.
OnlySpoiledFault ==
  fault.kind \in {"null", "read"} => fault.of \in spoiled

\* "Destructor. Frees any memory owned by the buffer." (Buffer.hh:76): it never
\* owns memory without a function to free it.
DestructorFrees == fault.kind = "null" => fault.of \notin Buffers

\* A buffer that was not spoiled can be read over its whole length, whatever it
\* was copied, moved, reset or resized from and whoever let go of it; and one
\* that references are held to is there (Buffer.cc:33-104, RefCountedObject.hh:64).
BuffersAreReadable ==
  fault = NoFault => \A b \in Buffers :
    /\ refs[b] > 0 => buf[b].live
    /\ buf[b].live /\ b \notin spoiled => CanRead(b, buf[b].length)
=============================================================================
