----------------------------- MODULE ControlLink -----------------------------
(***************************************************************************)
(* A master that controls a slave over a connection (comms/ModuleControl,  *)
(* comms/Message and the callbacks of comms/MessageDispatcher).  The slave *)
(* declares its interface and answers queries with its configuration; the  *)
(* master decodes it, builds module controls from it and sends them; the   *)
(* slave decodes them with its own configuration, which may have grown.    *)
(*                                                                         *)
(* The connection keeps the order of messages and may damage their bodies. *)
(* What follows a damaged message is the business of resync and is not     *)
(* modelled: the receiver stops.                                           *)
(***************************************************************************)
EXTENDS Interface

CONSTANTS
  MaskBits,      \* width of input_ids, 16 in the code
  Zero,          \* the value of cleared memory
  ModuleNames,   \* names of the modules the slave may add
  InputsToAdd,   \* for add_input: the module's name, the input's, its type
  SensorsToAdd,  \* the same for add_sensor
  UsesReset,     \* whether the master calls reset() on its control
  MaxMessages    \* bound on the messages in each direction

ASSUME ControlLinkAssumption ==
  /\ MaskBits \in Nat \ {0, 1}
  /\ Zero \in Values
  /\ InputsToAdd \subseteq ModuleNames \X Names \X TypedDeclarations
  /\ SensorsToAdd \subseteq ModuleNames \X Names \X TypedDeclarations
  /\ ModuleNames \subseteq Names
  /\ UsesReset \in BOOLEAN
  /\ MaxMessages \in Nat \ {0}

VARIABLES
  slave,     \* the configuration of the slave
  master,    \* the configuration that the master's node has received
  control,   \* the master's ModuleControl
  asked,     \* what the master's user has asked of that control
  down, up,  \* messages on their way to the slave and to the master
  deaf       \* the ends that have met a damaged message

vars == <<slave, master, control, asked, down, up, deaf>>

MAX_INPUTS == MaskBits - 1
ClearBit == MaskBits - 1
Null == 0
-----------------------------------------------------------------------------
(* Module controls.  input_ids is the set of the bits that are set; module *)
(* is the position of a module in the master's configuration.              *)

EmptyControl(id, m) == [module_id |-> id, input_ids |-> {}, module |-> m, values |-> <<>>]

NoControl == EmptyControl(0, Null)

\* reset() leaves the identifier at 0, whatever module it is given.
ResetControl(m) == EmptyControl(0, m)

NewControl(m) == EmptyControl(master.modules[m].id, m)

is_clear(c) == ClearBit \in c.input_ids

get_num_values(c) == IF is_clear(c) THEN 0 ELSE Cardinality(c.input_ids)

\* value_for: the pair of an input is added, in the order of identifiers,
\* when its bit is not set.
AddPairUnsorted(c, input) ==
  [c EXCEPT !.input_ids = @ \cup {input.input_id},
            !.values = Append(@, [input |-> input, value |-> Zero])]

\* std::sort, of pairs whose identifiers differ.
InOrder(pairs) ==
  \A j, k \in DOMAIN pairs : j < k => pairs[j].input.input_id < pairs[k].input.input_id

Sorted(pairs) ==
  CHOOSE s \in [DOMAIN pairs -> ToSet(pairs)] : ToSet(s) = ToSet(pairs) /\ InOrder(s)

AddPair(c, input) ==
  [c EXCEPT !.input_ids = @ \cup {input.input_id},
            !.values = Sorted(Append(@, [input |-> input, value |-> Zero]))]

value_for(c, input) == IF input.input_id \in c.input_ids THEN c ELSE AddPair(c, input)

SetEvery(c, input, v) ==
  LET d == value_for(c, input)
  IN  [d EXCEPT !.values = [k \in DOMAIN @ |-> [@[k] EXCEPT !.value = v]]]

\* set: no effect when value_for finds no pair for the bit.
set(c, input, v) ==
  LET d == value_for(c, input)
  IN  [d EXCEPT !.values = [k \in DOMAIN @ |->
         IF @[k].input.input_id = input.input_id THEN [@[k] EXCEPT !.value = v] ELSE @[k]]]

ControlHeaderSize == 3

ControlSize(c) ==
  ControlHeaderSize
    + FoldLeft(LAMBDA sum, pair : sum + pair.input.data_type.width,
               0, SubSeq(c.values, 1, get_num_values(c)))

EncodeControl(c) ==
  <<Write(ControlHeaderSize, [module_id |-> c.module_id, input_ids |-> c.input_ids])>>
    \o [k \in 1 .. get_num_values(c) |-> Write(c.values[k].input.data_type.width, c.values[k].value)]

\* A value is zero when the buffer is too short for it; it is neither of
\* the values when what is read was written with another width.
DecodeValue(type, buf, at) ==
  IF at > Len(buf) THEN Zero
  ELSE IF buf[at].size # type.width THEN Absent ELSE buf[at].data

\* The values are read in the order of the bits, each for the input at the
\* position of its bit.
DecodeControl(buf, config) ==
  LET h == buf[1].data
      m == config.modules[h.module_id + 1]
      Rank(i) == Cardinality({j \in h.input_ids : j <= i})
  IN  [module |-> [id |-> m.id, name |-> m.name],
       values |-> IF ClearBit \in h.input_ids THEN {}
                  ELSE {[input |-> m.inputs[i + 1],
                         value |-> DecodeValue(m.inputs[i + 1].data_type, buf, Rank(i) + 1)]
                          : i \in h.input_ids},
       cleared |-> IF ClearBit \in h.input_ids THEN h.input_ids \ {ClearBit} ELSE {}]

\* What the assertions of decode() ask of the configuration.
Decodable(buf, config) ==
  LET h == buf[1].data
  IN  /\ h.module_id < Len(config.modules)
      /\ ClearBit \notin h.input_ids =>
           \A i \in h.input_ids : i < Len(config.modules[h.module_id + 1].inputs)
-----------------------------------------------------------------------------
(* Messages.                                                               *)

\* By type; the same ones have a body.
has_checksum(type) == type # "CONFIGURATION_QUERY"

MESSAGE_CHECKSUM_SIZE == 4

\* The checksum is taken to tell the contents of any two messages apart.
compute_checksum(m) == IF has_checksum(m.type) THEN <<m.type, m.length, m.body>> ELSE <<>>

checksum_ok(m) == has_checksum(m.type) => m.checksum = compute_checksum(m)

\* A write that does not fit into the rest of the buffer is left out.
FillNext(acc, w) ==
  IF acc.room < w.size THEN acc
  ELSE [body |-> Append(acc.body, w), room |-> acc.room - w.size]

Fill(size, writes) == FoldLeft(FillNext, [body |-> <<>>, room |-> size], writes).body

\* writes and meant are not sent: how many writes the encoder made, and what
\* the message is about.
Message(type, size, writes, ghost) ==
  LET m == [type |-> type, length |-> size + MESSAGE_CHECKSUM_SIZE, body |-> Fill(size, writes),
            checksum |-> <<>>, writes |-> Len(writes), meant |-> ghost]
  IN  [m EXCEPT !.checksum = compute_checksum(m)]

Query == [type |-> "CONFIGURATION_QUERY", length |-> 0, body |-> <<>>, checksum |-> <<>>,
          writes |-> 0, meant |-> <<>>]

\* What was written reads differently.
Damage(m) == [m EXCEPT !.body = [k \in DOMAIN @ |-> [@[k] EXCEPT !.data = Absent]]]
-----------------------------------------------------------------------------
\* What a user asks of a control: the module, the inputs with the values that
\* were set, the identifiers of those that were cleared, the inputs whose value
\* was looked at, and whether clear() and reset() were called.  Of two calls for
\* one input the later counts.
Asking(module, reset) ==
  [module |-> module, values |-> {}, cleared |-> {}, read |-> {}, clears |-> FALSE,
   reset |-> reset]

Nothing == Asking(Null, FALSE)

Init ==
  /\ slave = NoConfiguration
  /\ master = NoConfiguration
  /\ control = NoControl
  /\ asked = Nothing
  /\ down = <<>> /\ up = <<>>
  /\ deaf = {}

(* The slave declares modules, inputs and sensors, at any time.            *)

SlaveUnchanged == UNCHANGED <<master, control, asked, down, up, deaf>>

AddModule ==
  /\ \E name \in ModuleNames :
       /\ \A k \in DOMAIN slave.modules : slave.modules[k].name # name
       /\ slave' = add_module(slave, name)
  /\ SlaveUnchanged

AddInput ==
  /\ \E k \in DOMAIN slave.modules, i \in InputsToAdd :
       /\ slave.modules[k].name = i[1]
       /\ Len(slave.modules[k].inputs) < MAX_INPUTS
       /\ find_input(slave.modules[k], i[2]) = 0
       /\ slave' = [slave EXCEPT !.modules[k] = add_input(@, i[2], i[3])]
  /\ SlaveUnchanged

AddSensor ==
  /\ \E k \in DOMAIN slave.modules, s \in SensorsToAdd :
       /\ slave.modules[k].name = s[1]
       /\ \A j \in DOMAIN slave.modules[k].sensors : slave.modules[k].sensors[j].name # s[2]
       /\ slave' = [slave EXCEPT !.modules[k] = add_sensor(@, s[2], s[3])]
  /\ SlaveUnchanged

(* The configuration is asked for, sent as a copy, and decoded.            *)

SendQuery ==
  /\ Len(down) < MaxMessages
  /\ down' = Append(down, Query)
  /\ UNCHANGED <<slave, master, control, asked, up, deaf>>

AnswerQuery ==
  /\ "slave" \notin deaf
  /\ down # <<>> /\ Head(down).type = "CONFIGURATION_QUERY"
  /\ Len(up) < MaxMessages
  /\ down' = Tail(down)
  /\ up' = Append(up, Message("CONFIGURATION_RESPONSE", ConfigurationSize(slave),
                              EncodeConfiguration(slave), slave))
  /\ UNCHANGED <<slave, master, control, asked, deaf>>

\* The user gives up a control that points into the former configuration.
ReceiveConfiguration ==
  /\ "master" \notin deaf
  /\ up # <<>>
  /\ up' = Tail(up)
  /\ IF checksum_ok(Head(up))
     THEN /\ master' = DecodeConfiguration(Head(up).body)
          /\ control' = NoControl
          /\ asked' = Nothing
          /\ UNCHANGED deaf
     ELSE /\ deaf' = deaf \cup {"master"}
          /\ UNCHANGED <<master, control, asked>>
  /\ UNCHANGED <<slave, down>>

(* The master builds a control.                                            *)

MasterUnchanged == UNCHANGED <<slave, master, down, up, deaf>>

AskFor(m, reset) ==
  Asking([id |-> master.modules[m].id, name |-> master.modules[m].name], reset)

\* Bound: one control is being built or on its way at a time.
MayBegin == \A m \in ToSet(down) : m.type # "MODULE_CONTROL"

Begin ==
  /\ MayBegin
  /\ \E m \in DOMAIN master.modules :
       /\ control' = NewControl(m)
       /\ asked' = AskFor(m, FALSE)
  /\ MasterUnchanged

Reset ==
  /\ UsesReset /\ MayBegin
  /\ \E m \in DOMAIN master.modules :
       /\ control' = ResetControl(m)
       /\ asked' = AskFor(m, TRUE)
  /\ MasterUnchanged

InputsOfControl == ToSet(master.modules[control.module].inputs)

AskValue(input, v) ==
  [asked EXCEPT !.values = {p \in @ : p.input # input} \cup {[input |-> input, value |-> v]},
                !.cleared = @ \ {input.input_id}]

AskRead(input) == [asked EXCEPT !.read = @ \cup {input}]

AskClear(inputs) ==
  [asked EXCEPT !.values = {p \in @ : p.input \notin inputs},
                !.cleared = @ \cup {i.input_id : i \in inputs},
                !.clears = TRUE]

SetValue ==
  /\ control.module # Null
  /\ \E input \in InputsOfControl, v \in Values :
       /\ control' = set(control, input, v)
       /\ asked' = AskValue(input, v)
  /\ MasterUnchanged

\* get, or value_for: reading a value that was not set adds it.
GetValue ==
  /\ control.module # Null
  /\ \E input \in InputsOfControl :
       /\ control' = value_for(control, input)
       /\ asked' = AskRead(input)
  /\ MasterUnchanged

\* The assertion of clear() wants no value to be set.
Clear ==
  /\ control.module # Null
  /\ get_num_values(control) = 0
  /\ \E input \in InputsOfControl :
       /\ control' = [control EXCEPT !.input_ids = @ \cup {ClearBit, input.input_id}]
       /\ asked' = AskClear({input})
  /\ MasterUnchanged

\* clear() with a name that the module does not have.
ClearUnknown ==
  /\ control.module # Null
  /\ get_num_values(control) = 0
  /\ control' = [control EXCEPT !.input_ids = @ \cup {ClearBit}]
  /\ asked' = AskClear({})
  /\ MasterUnchanged

SendControl ==
  /\ control.module # Null
  /\ Len(down) < MaxMessages
  /\ down' = Append(down, Message("MODULE_CONTROL", ControlSize(control), EncodeControl(control),
                                  asked))
  /\ control' = NoControl
  /\ asked' = Nothing
  /\ UNCHANGED <<slave, master, up, deaf>>

\* What the slave decodes goes to its callbacks, which are the user's.
ReceiveControl ==
  /\ "slave" \notin deaf
  /\ down # <<>> /\ Head(down).type = "MODULE_CONTROL"
  /\ down' = Tail(down)
  /\ IF checksum_ok(Head(down))
     THEN Decodable(Head(down).body, slave) /\ UNCHANGED deaf
     ELSE deaf' = deaf \cup {"slave"}
  /\ UNCHANGED <<slave, master, control, asked, up>>

\* Bound: one message is damaged.
DamageMessage ==
  /\ deaf = {}
  /\ \A m \in ToSet(down) \cup ToSet(up) : checksum_ok(m)
  /\ \/ /\ \E n \in DOMAIN down : down' = [down EXCEPT ![n] = Damage(@)]
        /\ UNCHANGED up
     \/ /\ \E n \in DOMAIN up : up' = [up EXCEPT ![n] = Damage(@)]
        /\ UNCHANGED down
  /\ UNCHANGED <<slave, master, control, asked, deaf>>

Next ==
  \/ AddModule \/ AddInput \/ AddSensor
  \/ SendQuery \/ AnswerQuery \/ ReceiveConfiguration
  \/ Begin \/ Reset \/ SetValue \/ GetValue \/ Clear \/ ClearUnknown
  \/ SendControl \/ ReceiveControl
  \/ DamageMessage

Spec == Init /\ [][Next]_vars
-----------------------------------------------------------------------------
(* Properties.                                                             *)

\* get_encoded_size() is computed apart from what encode() writes, and the
\* results of the writes are ignored: no write of a message is left out, and
\* its length says how much follows the header.
SizesExact ==
  \A m \in ToSet(down) \cup ToSet(up) :
    /\ Len(m.body) = m.writes
    /\ m.length = FoldLeft(LAMBDA sum, w : sum + w.size, 0, m.body)
                    + (IF has_checksum(m.type) THEN MESSAGE_CHECKSUM_SIZE ELSE 0)

\* Modules and inputs are found by their position where only an identifier
\* is sent (ModuleControl::decode), at both ends and after a decode.
IdsArePositions ==
  \A c \in {slave, master} : \A k \in DOMAIN c.modules :
    LET m == c.modules[k]
    IN  /\ m.id = k - 1
        /\ \A i \in DOMAIN m.inputs : m.inputs[i].input_id = i - 1
        /\ \A i \in DOMAIN m.sensors : m.sensors[i].id = i - 1
        /\ m.next_input_id = Len(m.inputs)
        /\ m.next_sensor_id = Len(m.sensors)

\* A master works with an answer that may be old: whatever the slave has
\* added since, it still has everything the master knows of, under the same
\* identifiers and with the same types.  An answer decodes to a configuration
\* that equals the one it was made from (Configuration::operator ==).
MasterIsPrefix ==
  /\ \A m \in ToSet(up) :
       checksum_ok(m) => SameConfiguration(DecodeConfiguration(m.body), m.meant)
  /\ Len(master.modules) <= Len(slave.modules)
  /\ \A k \in DOMAIN master.modules :
       LET m == master.modules[k]
           s == slave.modules[k]
       IN  /\ m.id = s.id /\ m.name = s.name
           /\ IsPrefix(m.inputs, s.inputs)
           /\ IsPrefix(m.sensors, s.sensors)

\* The values of a control that is not a clear are those of its mask, in the
\* order in which decode() reads them.
PairsMatchMask ==
  ~is_clear(control) =>
    /\ control.input_ids = {control.values[k].input.input_id : k \in DOMAIN control.values}
    /\ InOrder(control.values)

IsControl(m) == m.type = "MODULE_CONTROL" /\ checksum_ok(m)

\* A control is decoded at both ends: by the slave that receives it, and by
\* the master once it is written, for the callbacks of its `sent` signal, each
\* with the configuration its node has by then (MessageDispatcher::dispatch).
\* The assertion of ModuleControl::decode fails at neither (reset() apart).
ControlsDecodable ==
  \A m \in ToSet(down), c \in {slave, master} :
    IsControl(m) /\ ~m.meant.reset => Decodable(m.body, c)

\* got does what was asked for: it has every value that was set, and beyond
\* these only the zeros of inputs that were looked at; or, once clear() was
\* called, it clears what was to be cleared, and beyond that only inputs that
\* were looked at or set.
Does(got, meant) ==
  /\ got.module = meant.module
  /\ meant.cleared \subseteq got.cleared
  /\ IF meant.clears
     THEN /\ got.values = {}
          /\ \A i \in got.cleared \ meant.cleared :
               \E input \in meant.read \cup {p.input : p \in meant.values} : input.input_id = i
     ELSE /\ meant.values \subseteq got.values /\ got.cleared = {}
          /\ \A p \in got.values \ meant.values : p.input \in meant.read /\ p.value = Zero

\* What the slave makes of a control, with the configuration it has by the time
\* it comes to it, does what the user of the master asked for (reset() apart).
AppliedAsAsked ==
  \A m \in ToSet(down) :
    IsControl(m) /\ ~m.meant.reset => Does(DecodeControl(m.body, slave), m.meant)

\* "or NULL if no such value is set" (ModuleControl.hh:75): to look at a value
\* is not to set one, and what was not set is not applied.
ReadsSetNothing ==
  \A m \in ToSet(down) :
    IsControl(m) /\ ~m.meant.reset =>
      DecodeControl(m.body, slave).values \subseteq m.meant.values

\* "Set the value of an input" (ModuleControl.hh:107): what was set, and not
\* cleared since, is applied.
SetIsApplied ==
  \A m \in ToSet(down) :
    IsControl(m) /\ ~m.meant.reset =>
      m.meant.values \subseteq DecodeControl(m.body, slave).values

\* "Pointer to the new module for which this module-control object is used to
\* set values" (ModuleControl.hh:54): after a reset() it is that module's.
ResetAimsAtModule ==
  \A m \in ToSet(down) :
    IsControl(m) /\ Decodable(m.body, slave) =>
      DecodeControl(m.body, slave).module = m.meant.module
=============================================================================
