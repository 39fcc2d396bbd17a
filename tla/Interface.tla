------------------------------ MODULE Interface ------------------------------
(***************************************************************************)
(* The interface of a robot as RoboCRISP describes and transmits it: a     *)
(* Configuration of Modules, each with its inputs and sensors, which carry *)
(* DataDeclarations (include/crisp/comms, src/comms).  The module holds    *)
(* the data types and the pure functions on them: how they are built, what *)
(* their encoders write and what their decoders read back.                 *)
(*                                                                         *)
(* A buffer is the sequence of the writes that were made to it.  A write   *)
(* has the number of bytes it takes and what was written, a header as a    *)
(* record; a read takes the next write.                                    *)
(***************************************************************************)
EXTENDS Integers, FiniteSets, SequencesExt

CONSTANTS
  Names,     \* names of modules, inputs and sensors
  Values,    \* values of inputs, and neutral, minimum and maximum values
  Absent     \* what a declaration holds for a limit that was not given: the
             \* largest integer, or a NaN

ASSUME AbsentAssumption == Absent \notin Values

NoName == "none"    \* the null pointer of an object without a name
-----------------------------------------------------------------------------
(* Data declarations.                                                      *)

\* The limits a declaration may have.
Limits == {"neutral", "minimum", "maximum"}

\* What a typed declaration is built from (DataDeclaration<_T>).
TypedDeclarations ==
  [type : {"INTEGER", "FLOAT"}, width : 1 .. 2, limit : [Limits -> Values \cup {Absent}]]

\* The generic declarations that are stored and sent (DataDeclaration<>).
Declarations ==
  [type : {"INTEGER", "FLOAT"}, width : 1 .. 2,
   limit : UNION {[has -> Values \cup {Absent}] : has \in SUBSET Limits}]

\* A limit is present when it differs from the value that stands for none.
Given(t) == {l \in Limits : t.limit[l] # Absent}

\* Conversion of a floating-point declaration: the neutral value is copied
\* where the minimum is meant.
GenericFloat(t) ==
  [t EXCEPT !.limit = [l \in Given(t) |-> t.limit[IF l = "minimum" THEN "neutral" ELSE l]]]

GenericInteger(t) == [t EXCEPT !.limit = [l \in Given(t) |-> t.limit[l]]]

Generic(t) == IF t.type = "FLOAT" THEN GenericFloat(t) ELSE GenericInteger(t)

\* The limits that a declaration has, in the order of the tail.
Present(l, has) == IF l \in has THEN <<l>> ELSE <<>>

TailLimits(has) == Present("neutral", has) \o Present("minimum", has) \o Present("maximum", has)

TailPosition(has, l) == CHOOSE i \in DOMAIN TailLimits(has) : TailLimits(has)[i] = l

TailSize(d) == d.width * Cardinality(DOMAIN d.limit)

Write(size, data) == [size |-> size, data |-> data]

EncodeTail(d) ==
  [i \in 1 .. Cardinality(DOMAIN d.limit) |->
     Write(d.width, d.limit[TailLimits(DOMAIN d.limit)[i]])]

\* The tail read from its end.
DecodeTailSwapped(h, buf, at) ==
  [type |-> h.type, width |-> h.width,
   limit |-> [l \in h.has |->
     buf[at + Cardinality(h.has) - TailPosition(h.has, l)].data]]

DecodeTail(h, buf, at) ==
  [type |-> h.type, width |-> h.width,
   limit |-> [l \in h.has |->
     buf[at + TailPosition(h.has, l) - 1].data]]
-----------------------------------------------------------------------------
(* Inputs and sensors: a header, the tail of the declaration and a name.   *)

InputHeaderSize == 5
SensorHeaderSize == 6

Inputs == [input_id : Nat, name : Names, data_type : Declarations]
Sensors == [id : Nat, name : Names, data_type : Declarations]

NameLength(name) == IF name = NoName THEN 0 ELSE 1

DeclarationHeader(d) == [type |-> d.type, width |-> d.width, has |-> DOMAIN d.limit]

EncodeName(name) == IF name = NoName THEN <<>> ELSE <<Write(NameLength(name), name)>>

InputSize(i) == InputHeaderSize + NameLength(i.name) + TailSize(i.data_type)
SensorSize(s) == SensorHeaderSize + NameLength(s.name) + TailSize(s.data_type)

EncodeNamed(id, size, item) ==
  <<Write(size, [id |-> id, named |-> NameLength(item.name),
                declared |-> DeclarationHeader(item.data_type)])>>
    \o EncodeTail(item.data_type) \o EncodeName(item.name)

EncodeInput(i) == EncodeNamed(i.input_id, InputHeaderSize, i)
EncodeSensor(s) == EncodeNamed(s.id, SensorHeaderSize, s)

\* The number of reads an item takes, by its header.
Reads(h) == 1 + Cardinality(h.declared.has) + h.named

DecodeName(named, buf, at) == IF named = 0 THEN NoName ELSE buf[at].data

DecodeInput(buf, at) ==
  LET h == buf[at].data
  IN  [input_id |-> h.id, data_type |-> DecodeTail(h.declared, buf, at + 1),
       name |-> DecodeName(h.named, buf, at + 1 + Cardinality(h.declared.has))]

DecodeSensor(buf, at) ==
  LET h == buf[at].data
  IN  [id |-> h.id, data_type |-> DecodeTail(h.declared, buf, at + 1),
       name |-> DecodeName(h.named, buf, at + 1 + Cardinality(h.declared.has))]

\* Where each of n items decoded one after the other begins, and what follows them.
NextPlace(places, buf) == Append(places, Last(places) + Reads(buf[Last(places)].data))

Places(n, buf, start) == FoldLeft(NextPlace, <<start>>, [k \in 1 .. n |-> buf])

Concatenated(seqs) == FoldLeft(LAMBDA s, t : s \o t, <<>>, seqs)
-----------------------------------------------------------------------------
(* Modules.                                                                *)

ModuleHeaderSize == 4

Modules ==
  [id : Nat, name : Names \cup {NoName}, inputs : Seq(Inputs), sensors : Seq(Sensors),
   next_input_id : Nat, next_sensor_id : Nat]

NewModule(id, name) ==
  [id |-> id, name |-> name, inputs |-> <<>>, sensors |-> <<>>,
   next_input_id |-> 0, next_sensor_id |-> 0]

add_input(m, name, typed) ==
  [m EXCEPT !.inputs = Append(@, [input_id |-> m.next_input_id, name |-> name,
                                  data_type |-> Generic(typed)]),
            !.next_input_id = @ + 1]

add_sensor(m, name, typed) ==
  [m EXCEPT !.sensors = Append(@, [id |-> m.next_sensor_id, name |-> name,
                                   data_type |-> Generic(typed)]),
            !.next_sensor_id = @ + 1]

\* The position of an input by its name: 0 stands for the null pointer.
find_input(m, name) == SelectInSeq(m.inputs, LAMBDA i : i.name = name)

InputsSize(m) == FoldLeft(LAMBDA sum, i : sum + InputSize(i), 0, m.inputs)

SensorsSize(m) == FoldLeft(LAMBDA sum, i : sum + SensorSize(i), 0, m.sensors)

ModuleSizeWithoutSensors(m) == ModuleHeaderSize + NameLength(m.name) + InputsSize(m)

ModuleSize(m) == ModuleHeaderSize + NameLength(m.name) + InputsSize(m) + SensorsSize(m)

EncodeModule(m) ==
  <<Write(ModuleHeaderSize, [id |-> m.id, num_inputs |-> Len(m.inputs),
                             num_sensors |-> Len(m.sensors), named |-> NameLength(m.name)])>>
    \o EncodeName(m.name)
    \o Concatenated([k \in 1 .. Len(m.inputs) |-> EncodeInput(m.inputs[k])])
    \o Concatenated([k \in 1 .. Len(m.sensors) |-> EncodeSensor(m.sensors[k])])

NextIdRepeated(ids) == IF ids = <<>> THEN 0 ELSE Last(ids)

\* The identifier after that of the last item read.
NextId(ids) == IF ids = <<>> THEN 0 ELSE Last(ids) + 1

DecodeModule(buf, start) ==
  LET h == buf[start].data
      ins_at == Places(h.num_inputs, buf, start + 1 + h.named)
      sens_at == Places(h.num_sensors, buf, Last(ins_at))
      ins == [k \in 1 .. h.num_inputs |-> DecodeInput(buf, ins_at[k])]
      sens == [k \in 1 .. h.num_sensors |-> DecodeSensor(buf, sens_at[k])]
  IN  [module |-> [id |-> h.id, name |-> DecodeName(h.named, buf, start + 1),
                   inputs |-> ins, sensors |-> sens,
                   next_input_id |-> NextId([k \in 1 .. h.num_inputs |-> ins[k].input_id]),
                   next_sensor_id |-> NextId([k \in 1 .. h.num_sensors |-> sens[k].id])],
       at |-> Last(sens_at)]

\* Equality of modules compares all but the identifiers that come next.
SameModule(m, n) ==
  /\ m.id = n.id
  /\ m.name = n.name
  /\ m.inputs = n.inputs
  /\ m.sensors = n.sensors
-----------------------------------------------------------------------------
(* Configurations.                                                         *)

ConfigurationHeaderSize == 1

Configurations == [modules : Seq(Modules), next_module_id : Nat]

NoConfiguration == [modules |-> <<>>, next_module_id |-> 0]

add_module(c, name) ==
  [modules |-> Append(c.modules, NewModule(c.next_module_id, name)),
   next_module_id |-> c.next_module_id + 1]

ConfigurationSize(c) == ConfigurationHeaderSize + FoldLeft(LAMBDA sum, m : sum + ModuleSize(m), 0, c.modules)

EncodeConfiguration(c) ==
  <<Write(ConfigurationHeaderSize, Len(c.modules))>>
    \o Concatenated([k \in 1 .. Len(c.modules) |-> EncodeModule(c.modules[k])])

DecodeNext(acc, buf) ==
  LET m == DecodeModule(buf, acc.at)
  IN  [items |-> Append(acc.items, m.module), at |-> m.at]

\* The counter of identifiers is reset and stays so.
DecodeConfiguration(buf) ==
  [modules |->
     FoldLeft(DecodeNext, [items |-> <<>>, at |-> 2], [k \in 1 .. buf[1].data |-> buf]).items,
   next_module_id |-> 0]

SameConfiguration(c, d) ==
  /\ Len(c.modules) = Len(d.modules)
  /\ \A k \in 1 .. Len(c.modules) : SameModule(c.modules[k], d.modules[k])
=============================================================================
