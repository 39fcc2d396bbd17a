------------------------------- MODULE Input -------------------------------
(***************************************************************************)
(* crisp::input: evdev devices, each read by a loop of its own that posts  *)
(* raw values to an Axis; the Axis emulates the other reporting style,     *)
(* clips, maps to a value and emits; a MultiplexController runs the loops  *)
(* of several devices and stops them all.                                  *)
(*                                                                         *)
(* A mapped value is a fraction [num, den].  Of a device one axis is       *)
(* modelled, and its buttons as events that leave no state.                *)
(***************************************************************************)
EXTENDS Axis

CONSTANTS Devices,       \* the controllers, a sequence in the order of add()
          AbsInfo,       \* per device, what the kernel may say of an absolute axis
          Coefficients,  \* polynomials a user may set, highest power first
          RawValues,     \* per device, the values of its events
          MaxEvents      \* per device, their number

ASSUME InputAssumption ==
  /\ Devices \in Seq(ToSet(Devices)) /\ Devices # <<>> /\ IsInjective(Devices)
  /\ Coefficients \subseteq Seq(Int)
  /\ \A d \in ToSet(Devices) :
       /\ AbsInfo[d] \subseteq [value : Int, minimum : Int, maximum : Int]
       /\ RawValues[d] \subseteq Int /\ MaxEvents[d] \in Nat

VARIABLES
  axis,      \* of each device: type, mode, raw, map_method, coefficients
  given,     \* the polynomial as the user wrote it
  last,      \* m_last_raw_value
  out,       \* the State last emitted by the axis
  open,      \* the device's descriptor
  loop,      \* its run(): "idle", "top", "blocked", "posting" or "ended",
             \* and "over" when its thread has called stop()
  pending,   \* how many events wait in the kernel
  event,     \* the event read
  events,    \* how many arrived
  main,      \* the multiplexer: "new", "starting" the loops, "running",
             \* "returned" or "gone"
  stopping,  \* per thread (a device's, or the user's), what stop() has to close
  posted,    \* history: the raw values posted to each axis
  moved,     \* history: the sum of the raw values it emitted
  fault      \* an exception nobody catches, or a multiplexer used when gone

vars == <<axis, given, last, out, open, loop, pending, event, events,
          main, stopping, posted, moved, fault>>

Device == ToSet(Devices)
LastDevice == Devices[Len(Devices)]
User == "user"

\* EvDevController's constructor, for each axis libevdev reports: an absolute
\* one needs a range, and rests wherever it is when the device is opened.
EvDevAxes(d) ==
  {LinearAxis(RawConfig(i.value, i.minimum, i.maximum)) :
      i \in {j \in AbsInfo[d] : j.minimum # j.maximum}} \cup {PlainAxis(Relative)}
-----------------------------------------------------------------------------
Init ==
  /\ axis \in {f \in [Device -> UNION {EvDevAxes(d) : d \in Device}] :
                 \A d \in Device : f[d] \in EvDevAxes(d)}
  /\ given = [d \in Device |-> <<>>]
  /\ last = [d \in Device |-> 0]
  /\ out = [d \in Device |-> [raw_value |-> 0, value |-> Fraction(0, 1)]]
  /\ open = [d \in Device |-> TRUE]
  /\ loop = [d \in Device |-> "idle"]
  /\ pending = [d \in Device |-> 0]
  /\ event = [d \in Device |-> 0]
  /\ events = [d \in Device |-> 0]
  /\ main = "new"
  /\ stopping = [t \in Device \cup {User} |-> <<>>]
  /\ posted = [d \in Device |-> <<>>]
  /\ moved = [d \in Device |-> 0]
  /\ fault = "none"

Axes == <<axis, given, last, out, posted, moved>>
Reading == <<open, loop, pending, event, events>>
Running == <<main, stopping>>

\* Before the loops run, the user sets an axis' mode, its range (the raw field
\* is public) or its polynomial.
Configure(d) ==
  /\ main = "new"
  /\ \/ axis[d].mode = axis[d].type /\ given' = given
        /\ axis' = [axis EXCEPT ![d].mode = Other(@)]
     \/ axis[d].raw = RawConfig(0, 0, 0) /\ given' = given
        /\ \E i \in AbsInfo[d] :
             axis' = [axis EXCEPT ![d].raw = RawConfig(i.value, i.minimum, i.maximum)]
     \/ axis[d].raw # RawConfig(0, 0, 0) /\ given[d] = <<>>
        /\ \E list \in Coefficients :
             /\ axis' = [axis EXCEPT ![d] = set_coefficients(@, list)]
             /\ given' = [given EXCEPT ![d] = list]
  /\ UNCHANGED <<last, out, posted, moved, Reading, Running, fault>>

-----------------------------------------------------------------------------
(* EvDevController *)

\* The hardware.
Arrive(d) ==
  /\ main # "new" /\ events[d] < MaxEvents[d]
  /\ events' = [events EXCEPT ![d] = @ + 1]
  /\ pending' = [pending EXCEPT ![d] = @ + 1]
  /\ UNCHANGED <<Axes, open, loop, event, Running, fault>>

\* run() comes to select(): on a descriptor that is closed it fails.
Enter(d) ==
  /\ loop[d] = "top"
  /\ loop' = [loop EXCEPT ![d] = IF open[d] THEN "blocked" ELSE "ended"]
  /\ UNCHANGED <<Axes, open, pending, event, events, Running, fault>>

\* select() returns when there is an event, and only then: closing the
\* descriptor from another thread does not wake it.  Then read() fails.
Wake(d, v) ==
  /\ loop[d] = "blocked" /\ pending[d] > 0
  /\ IF open[d]
     THEN /\ loop' = [loop EXCEPT ![d] = "posting"]
          /\ event' = [event EXCEPT ![d] = v]
          /\ pending' = [pending EXCEPT ![d] = @ - 1]
     ELSE loop' = [loop EXCEPT ![d] = "ended"] /\ UNCHANGED <<event, pending>>
  /\ UNCHANGED <<Axes, open, events, Running, fault>>

\* A signal interrupts select(), or the device is unplugged and select() or
\* read() fails: the loop ends, whether or not somebody closed the descriptor.
Fail(d) ==
  /\ loop[d] = "blocked"
  /\ loop' = [loop EXCEPT ![d] = "ended"]
  /\ UNCHANGED <<Axes, open, pending, event, events, Running, fault>>

\* The event was one of the axis: Axis::post.
PostAxis(d) ==
  /\ loop[d] = "posting"
  /\ LET e == Emulate(axis[d], last[d], event[d])
         state == Emitted(axis[d], e.value)
     IN /\ last' = [last EXCEPT ![d] = e.last]
        /\ posted' = [posted EXCEPT ![d] = Append(@, event[d])]
        /\ IF state.value = Throws
           THEN fault' = "throws" /\ UNCHANGED <<out, moved, loop>>
           ELSE /\ out' = [out EXCEPT ![d] = state]
                /\ moved' = [moved EXCEPT ![d] = @ + state.raw_value]
                /\ loop' = [loop EXCEPT ![d] = "top"]
                /\ fault' = fault
  /\ event' = [event EXCEPT ![d] = 0]
  /\ UNCHANGED <<axis, given, open, pending, events, Running>>

\* The event was one of the button, or of no kind the loop knows: the button
\* emits its state and keeps none.
PostButton(d) ==
  /\ loop[d] = "posting"
  /\ loop' = [loop EXCEPT ![d] = "top"]
  /\ event' = [event EXCEPT ![d] = 0]
  /\ UNCHANGED <<Axes, open, pending, events, Running, fault>>

-----------------------------------------------------------------------------
(* MultiplexController *)

\* run(): a detached thread for each controller but the last ...
Spawn(i) ==
  /\ main = IF i = 1 THEN "new" ELSE "starting"
  /\ \A j \in DOMAIN Devices : loop[Devices[j]] = "idle" <=> j >= i
  /\ loop' = [loop EXCEPT ![Devices[i]] = "top"]
  /\ main' = IF i = Len(Devices) THEN "running" ELSE "starting"
  /\ UNCHANGED <<Axes, open, pending, event, events, stopping, fault>>

\* ... whose own loop run() executes and whose end it returns at.
ReturnFromRun ==
  /\ main = "running" /\ loop[LastDevice] = "ended"
  /\ main' = "returned"
  /\ UNCHANGED <<Axes, Reading, stopping, fault>>

\* Nothing keeps the user from destroying the multiplexer then.
Destroy ==
  /\ main = "returned" /\ stopping[User] = <<>>
  /\ main' = "gone"
  /\ UNCHANGED <<Axes, Reading, stopping, fault>>

\* A detached thread whose controller ended calls stop() on the multiplexer.
StopsAll(d) ==
  /\ d # LastDevice /\ loop[d] = "ended"
  /\ loop' = [loop EXCEPT ![d] = "over"]
  /\ IF main = "gone" THEN fault' = "gone" /\ stopping' = stopping
     ELSE fault' = fault /\ stopping' = [stopping EXCEPT ![d] = Devices]
  /\ UNCHANGED <<Axes, open, pending, event, events, main>>

\* The user calls stop() while the loops run.
UserStop ==
  /\ main \notin {"new", "gone"} /\ stopping[User] = <<>>
  /\ \A c \in Device : open[c]
  /\ stopping' = [stopping EXCEPT ![User] = Devices]
  /\ UNCHANGED <<Axes, Reading, main, fault>>

\* stop() closes one descriptor after another.
CloseThen(t, rest) ==
  /\ stopping[t] # <<>>
  /\ IF main = "gone" THEN fault' = "gone" /\ UNCHANGED <<open, stopping>>
     ELSE /\ open' = [open EXCEPT ![Head(stopping[t])] = FALSE]
          /\ stopping' = [stopping EXCEPT ![t] = rest]
          /\ fault' = fault
  /\ UNCHANGED <<Axes, loop, pending, event, events, main>>

\* A slip: one controller is enough.
CloseFirst(t) == CloseThen(t, <<>>)

CloseNext(t) == CloseThen(t, Tail(stopping[t]))

Step(d) == Enter(d) \/ (\E v \in RawValues[d] : Wake(d, v)) \/ PostAxis(d) \/ PostButton(d) \/ StopsAll(d)

Next ==
  /\ fault = "none"
  /\ \/ \E d \in Device : Configure(d) \/ Arrive(d) \/ Fail(d) \/ Step(d)
     \/ \E i \in DOMAIN Devices : Spawn(i)
     \/ ReturnFromRun \/ Destroy \/ UserStop
     \/ \E t \in Device \cup {User} : CloseNext(t)

\* Threads run; the hardware need not say anything, nor fail.
Fairness ==
  /\ \A d \in Device : WF_vars(fault = "none" /\ Step(d))
  /\ \A t \in Device \cup {User} : WF_vars(fault = "none" /\ CloseNext(t))
  /\ \A i \in DOMAIN Devices \ {1} : WF_vars(fault = "none" /\ Spawn(i))

Spec == Init /\ [][Next]_vars /\ Fairness

-----------------------------------------------------------------------------
(* Properties *)

Total(s) == FoldLeft(+, 0, s)

\* A relative device that emulates an absolute axis stands where the movements
\* it reported add up to, clipped: movement beyond an end has to be taken back
\* before the axis leaves that end (Axis.cc:182-191).
EmulatedPositionIsTotal ==
  \A d \in Device :
    axis[d].type = Relative /\ axis[d].mode = Absolute /\ posted[d] # <<>> /\ fault = "none"
      => out[d].raw_value = Clip(axis[d].raw, Total(posted[d]))

\* An absolute device that emulates a relative axis emits movements that add up
\* to its position, if no movement of the history was clipped (Axis.cc:177-191
\* clips a movement to the range of positions).
NotClipped(a, s) ==
  \A i \in DOMAIN s : LET m == s[i] - (IF i = 1 THEN 0 ELSE s[i - 1])
                      IN Clip(a.raw, m) = m

EmulatedMovesAddUp ==
  \A d \in Device :
    axis[d].type = Absolute /\ axis[d].mode = Relative /\ posted[d] # <<>> /\ fault = "none"
      /\ NotClipped(axis[d], posted[d])
      => moved[d] = posted[d][Len(posted[d])]

\* "A value between -1.0 and 1.0.  The raw value's neutral point is always
\* mapped to 0.0" (Axis.hh:149), for an axis of absolute style whose neutral
\* point lies within its range and, when the range is symmetric about zero, is
\* zero.
Wellformed(r) == /\ r.minimum <= r.neutral /\ r.neutral <= r.maximum
                 /\ r.minimum < r.maximum
                 /\ r.maximum = -r.minimum => r.neutral = 0

LinearInRange ==
  \A d \in Device :
    LET r == axis[d].raw
        x == out[d].value
    IN axis[d].map_method = "linear" /\ axis[d].mode = Absolute /\ Wellformed(r)
         /\ posted[d] # <<>> /\ fault = "none"
       => /\ Magnitude(x.num) <= Magnitude(x.den)
          /\ out[d].raw_value = r.neutral => x.num = 0

\* "A value between -1.0 and 1.0" (Axis.hh:149), for every range with its neutral
\* point inside.
StaysInUnitRange ==
  \A d \in Device :
    LET r == axis[d].raw
        x == out[d].value
    IN axis[d].map_method = "linear" /\ axis[d].mode = Absolute /\ posted[d] # <<>>
         /\ fault = "none" /\ r.minimum < r.neutral /\ r.neutral < r.maximum
       => Magnitude(x.num) <= Magnitude(x.den)

\* The value emitted is the polynomial, as its user wrote it (highest power
\* first), at the linear value: by Horner's rule, where the code reverses the
\* list and adds up powers (Axis.cc:61, 161).
HornerStep(acc, t) == Fraction(acc.num * t.x.num + t.c * acc.den * t.x.den,
                               acc.den * t.x.den)

Horner(list, x) ==
  FoldLeft(HornerStep, Fraction(0, 1), [i \in 1..Len(list) |-> [c |-> list[i], x |-> x]])

SameFraction(x, y) == x.num * y.den = y.num * x.den

PolynomialAsWritten ==
  \A d \in Device :
    given[d] # <<>> /\ posted[d] # <<>> /\ fault = "none"
      => SameFraction(out[d].value, Horner(given[d], LinearPart(axis[d].raw, out[d].raw_value)))

\* Once a thread is in stop(), every loop ends, or waits for an event of a
\* device that is already closed: select() is not woken by the close.
StoppedLoopsEnd ==
  (\E t \in Device \cup {User} : stopping[t] # <<>>) ~>
     (\/ fault # "none" \/ main = "gone"
      \/ \A d \in Device : ~open[d] /\ (loop[d] \in {"ended", "over"} \/
                                         (loop[d] = "blocked" /\ pending[d] = 0)))
=============================================================================
