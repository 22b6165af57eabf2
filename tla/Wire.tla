---------------------------------- MODULE Wire ----------------------------------
(***************************************************************************)
(* A message on its way through a program whose bindings may be older.     *)
(* A writer fills a message in and writes it; a relay reads it, perhaps    *)
(* without knowing all of its fields, and writes what it has; a reader     *)
(* reads that.  A stream may break off in the middle of a message, which   *)
(* is then cleared and read again from the start.                          *)
(*                                                                         *)
(* The generated bindings of src/proto: for each message type merge_from,  *)
(* compute_size, write_to_with_cached_sizes and clear.  These are the same *)
(* code for every field of a kind; which fields a message has is Schema.   *)
(* The library that holds the stream and the fields that a binding does    *)
(* not know is external.                                                   *)
(*                                                                         *)
(* Sizes count the parts of the stream: a tag with its number or length is *)
(* one, the contents of a string another.  A message has the messages in   *)
(* it, and these have empty ones.                                          *)
(***************************************************************************)
EXTENDS Integers, Sequences, SequencesExt, FiniteSets

CONSTANTS
    Schema,         \* by name, the fields of each type of message and map entry
    Earlier,        \* by name, the fields that an earlier schema had with the same
                    \* number, and another type, or that it had besides
    Types,          \* the types of message that are sent
    Zero, a,        \* the default of a value, and another value
    MaxFields,      \* bound: fields that are set
    MaxErrors       \* bound: streams that break off

ASSUME WireAssumption ==
    /\ Types \subseteq DOMAIN Schema /\ DOMAIN Earlier \subseteq Types
    /\ Zero # a /\ MaxFields \in Nat /\ MaxErrors \in Nat

-----------------------------------------------------------------------------
(***************************************************************************)
(* Schemas                                                                 *)
(***************************************************************************)
EarlierFields(t) ==
    LET changed == {Earlier[t][f].num : f \in DOMAIN Earlier[t]}
        same == {f \in DOMAIN Schema[t] : Schema[t][f].num \notin changed}
    IN  [f \in DOMAIN Earlier[t] \cup same |->
            IF f \in DOMAIN Earlier[t] THEN Earlier[t][f] ELSE Schema[t][f]]

EarlierSchema ==
    [t \in DOMAIN Schema |-> IF t \in DOMAIN Earlier THEN EarlierFields(t) ELSE Schema[t]]

\* The wire types of a field's tag: the one that is written, and those that are read.
Written_wt(field) == IF field.kind = "scalar" THEN field.wt ELSE "len"

Tags(field) ==
    CASE field.kind = "scalar" -> {field.wt}
      [] field.kind = "packed" -> {"len", field.wt}
      [] OTHER -> {"len"}

\* What the generator sees to: within a type no number is used twice, a field that
\* has a length is of wire type "len", types are declared, and an entry of a map
\* has a key, a string, and a value and is the type of nothing else.
FieldType == [num : Nat \ {0}, wt : {"len", "varint", "fixed64"}, type : STRING,
          kind : {"scalar", "repeated", "packed", "message", "messages", "map"}]

IsEntry(F) ==
    /\ DOMAIN F = {"key", "value"} /\ F.key.num # F.value.num
    /\ F.key.kind = "scalar" /\ F.key.wt = "len" /\ F.value.kind \in {"scalar", "message"}

WellFormed(schema) ==
    \A t \in DOMAIN schema : \A f \in DOMAIN schema[t] :
        LET field == schema[t][f] IN
        /\ field \in FieldType
        /\ \A g \in DOMAIN schema[t] : schema[t][g].num = field.num => g = f
        /\ field.kind \in {"repeated", "message", "messages", "map"} => field.wt = "len"
        /\ field.kind = "packed" => field.wt # "len"
        /\ field.kind \in {"message", "messages", "map"} => field.type \in DOMAIN schema
        /\ field.kind = "map" => IsEntry(schema[field.type]) /\ field.type \notin Types
        /\ field.kind \in {"message", "messages"} =>
              \A u \in DOMAIN schema : \A g \in DOMAIN schema[u] :
                  schema[u][g].kind = "map" => schema[u][g].type # field.type

ASSUME SchemaAssumption == WellFormed(Schema) /\ WellFormed(EarlierSchema)

\* A number that has changed its type has changed its tag, but for number 2 of
\* NetworkDeviceList: a map of numbers then, and now a message of which no field
\* is known here.  No message has such a list in it.
ASSUME EarlierAssumption ==
    /\ \A t \in DOMAIN Earlier : \A f \in DOMAIN Earlier[t], g \in DOMAIN Schema[t] :
          LET old == Earlier[t][f]
              new == Schema[t][g]
          IN  /\ old.num = new.num
              /\ Written_wt(old) \in Tags(new)
              => /\ t = "NetworkDeviceList"
                 /\ old.kind = "map" /\ Schema[old.type].value.kind = "scalar"
                 /\ new.kind = "message" /\ DOMAIN Schema[new.type] = {}
    /\ \A t \in DOMAIN Schema : \A f \in DOMAIN EarlierSchema[t] :
          EarlierSchema[t][f].type # "NetworkDeviceList"

-----------------------------------------------------------------------------
VARIABLES
    type,           \* of the message sent
    earlier,        \* the writer has the earlier schema
    theirs, ours,   \* the writer's bindings of the message and those in it, and ours
    source,         \* the writer's message
    lacks,          \* the fields that the relay does not know
    hop,            \* 0 for the writer, 1 for the relay, 2 for the reader
    stream, pos,    \* what is read, and where the next tag is
    stack,          \* the calls of merge_from, the outermost first
    broken,         \* the stream broke off
    errors          \* how often it did

reading == <<pos, stack, broken>>
vars == <<type, earlier, theirs, ours, source, lacks, hop, stream, reading, errors>>
-----------------------------------------------------------------------------
(***************************************************************************)
(* The bindings of a message and of those in it                            *)
(***************************************************************************)
\* The types in T and those of their fields.
WithFields(schema, T) ==
    T \cup ((UNION {{schema[t][f].type : f \in DOMAIN schema[t]} : t \in T}) \cap DOMAIN schema)

\* Of a schema, a type, the messages and entries in it, theirs, and the empty
\* messages in those.
Bindings(schema, t) ==
    LET twice(T) == WithFields(schema, WithFields(schema, T))
    IN  [x \in twice(twice({t})) |-> schema[x]]

\* The fields of a type, to the program that has read hop h.
FieldsOf(h, t) == IF h = 0 THEN theirs[t] ELSE ours[t]

Knows(h, t, f) == h # 1 \/ <<t, f>> \notin lacks

(***************************************************************************)
(* Messages: the fields that differ from their default - an empty string,  *)
(* zero, no message, no elements - and what was read besides, by number    *)
(***************************************************************************)
Nothing == << >>        \* no fields, no elements

default_instance(t) == [type |-> t, fields |-> Nothing, unknown |-> Nothing]

\* Mutation: what is not known stays.
clearKnown(m) == [m EXCEPT !.fields = Nothing]

clear(m) == default_instance(m.type)

\* A function with another value, or a value more.
Assign(g, x, value) == [y \in DOMAIN g \cup {x} |-> IF y = x THEN value ELSE g[y]]

With(m, f, value) == [m EXCEPT !.fields = Assign(@, f, value)]

\* What a field has got so far.
Old(m, f) == IF f \in DOMAIN m.fields THEN m.fields[f] ELSE Nothing

\* The messages in the value of a field.
Nested(field, value) ==
    CASE field.kind = "message"  -> {value}
      [] field.kind = "messages" -> ToSet(value)
      [] field.kind = "map" /\ ours[field.type].value.kind = "message" ->
            {value[k] : k \in DOMAIN value}
      [] OTHER -> {}

\* The messages in the fields of a message.
Parts(h, m) == UNION {Nested(FieldsOf(h, m.type)[f], m.fields[f]) : f \in DOMAIN m.fields}
-----------------------------------------------------------------------------
(***************************************************************************)
(* compute_size, where sub has the sizes of the messages in the message    *)
(***************************************************************************)
OneSize(field) == IF field.wt = "len" THEN 2 ELSE 1

\* The values of an entry are written whatever they are.
EntrySize(entry, value, sub) ==
    2 + IF entry.value.kind = "message" THEN 1 + sub[value] ELSE OneSize(entry.value)

FieldSize(field, value, sub) ==
    CASE field.kind = "scalar"   -> OneSize(field)
      [] field.kind = "message"  -> 1 + sub[value]
      [] field.kind = "repeated" -> 2 * Len(value)
      [] field.kind = "packed"   -> 1 + Len(value)
      [] field.kind = "messages" -> SumFunction([i \in DOMAIN value |-> 1 + sub[value[i]]])
      [] field.kind = "map"      ->
            SumFunction([k \in DOMAIN value |-> 1 + EntrySize(ours[field.type], value[k], sub)])

unknown_fields_size(unknown) == SumFunction([n \in DOMAIN unknown |-> Len(unknown[n])])

compute_size(m, F, sub) ==
    SumFunction([f \in DOMAIN m.fields |-> FieldSize(F[f], m.fields[f], sub)])
        + unknown_fields_size(m.unknown)

\* Mutation: the fields that are not known are not counted.
cached_size_known(h, m) ==
    compute_size([m EXCEPT !.unknown = Nothing], FieldsOf(h, m.type), [x \in Parts(h, m) |-> 0])

\* What a message inside the one that is sent announces; its own are empty.
cached_size(h, m) == compute_size(m, FieldsOf(h, m.type), [x \in Parts(h, m) |-> 0])
-----------------------------------------------------------------------------
(***************************************************************************)
(* write_to_with_cached_sizes, where size and sub have what is announced   *)
(* and what is written of the messages in the message                      *)
(***************************************************************************)
\* The order of fields, of entries and of unknown fields makes no difference: some order.
Concat(parts) == FoldFunction(\o, Nothing, parts)

\* Mutation: a default is left out, in a list and in an entry as well.
OneSparse(field, value) ==
    IF value = Zero THEN Nothing
    ELSE IF field.wt = "len" THEN <<[num |-> field.num, wt |-> "len", v |-> 1], [raw |-> value]>>
    ELSE <<[num |-> field.num, wt |-> field.wt, v |-> value]>>

One(field, value) ==
    IF field.wt = "len" THEN <<[num |-> field.num, wt |-> "len", v |-> 1], [raw |-> value]>>
    ELSE <<[num |-> field.num, wt |-> field.wt, v |-> value]>>

Announced(num, size, parts) == <<[num |-> num, wt |-> "len", v |-> size]>> \o parts

EntryParts(entry, key, value, size, sub) ==
    One(entry.key, key) \o
    IF entry.value.kind = "message" THEN Announced(entry.value.num, size[value], sub[value])
    ELSE One(entry.value, value)

FieldParts(field, value, size, sub) ==
    CASE field.kind = "scalar"   -> One(field, value)
      [] field.kind = "message"  -> Announced(field.num, size[value], sub[value])
      [] field.kind = "repeated" -> FlattenSeq([i \in DOMAIN value |-> One(field, value[i])])
      [] field.kind = "packed"   ->
            Announced(field.num, Len(value), [i \in DOMAIN value |-> [raw |-> value[i]]])
      [] field.kind = "messages" ->
            FlattenSeq([i \in DOMAIN value |-> Announced(field.num, size[value[i]], sub[value[i]])])
      [] field.kind = "map"      ->
            LET entry == ours[field.type]
                announced(k) == EntrySize(entry, value[k], size)
                parts(k) == EntryParts(entry, k, value[k], size, sub)
            IN  Concat([k \in DOMAIN value |-> Announced(field.num, announced(k), parts(k))])

write_to_with_cached_sizes(m, F, size, sub) ==
    Concat([f \in DOMAIN m.fields |-> FieldParts(F[f], m.fields[f], size, sub)])
        \o Concat(m.unknown)

\* The messages two levels down are empty, and so are their parts.
InnerParts(h, m) ==
    write_to_with_cached_sizes(m, FieldsOf(h, m.type), [x \in Parts(h, m) |-> 0],
                               [x \in Parts(h, m) |-> Nothing])

\* The program that has read hop h writes its message; the library has it compute
\* the sizes first.
Written(h, m) ==
    write_to_with_cached_sizes(m, FieldsOf(h, m.type), [x \in Parts(h, m) |-> cached_size(h, x)],
                               [x \in Parts(h, m) |-> InnerParts(h, x)])
-----------------------------------------------------------------------------
(***************************************************************************)
(* The writer                                                              *)
(***************************************************************************)
\* For the fields of a message inside the one sent.
Sample(field) ==
    CASE field.kind = "scalar"   -> a
      [] field.kind = "message"  -> default_instance(field.type)
      [] field.kind = "messages" -> <<default_instance(field.type)>>
      [] field.kind \in {"repeated", "packed"} -> <<Zero>>
      [] field.kind = "map"      ->
            [k \in {a} |-> IF ours[field.type].value.kind = "message"
                           THEN default_instance(ours[field.type].value.type) ELSE Zero]

Inner(t) ==
    {default_instance(t)} \cup
    {With(default_instance(t), f, Sample(FieldsOf(0, t)[f])) : f \in DOMAIN FieldsOf(0, t)}

Values(field) ==
    CASE field.kind = "scalar"   -> {a}
      [] field.kind = "message"  -> Inner(field.type)
      [] field.kind = "messages" -> {<<x, default_instance(field.type)>> : x \in Inner(field.type)}
      [] field.kind \in {"repeated", "packed"} -> {<<Zero>>, <<a, Zero>>}
      [] field.kind = "map"      ->
            IF ours[field.type].value.kind = "message"
            THEN {[k \in {Zero} |-> x] : x \in Inner(ours[field.type].value.type)}
            ELSE {[k \in {a} |-> Zero], [k \in {a, Zero} |-> IF k = a THEN Zero ELSE a]}

\* The fields that are set in the message and in those inside it.
AllSet(h, m) == UNION {{<<x.type, f>> : f \in DOMAIN x.fields} : x \in Parts(h, m) \cup {m}}

Init ==
    /\ type \in Types
    /\ earlier \in BOOLEAN /\ (earlier => type \in DOMAIN Earlier)
    /\ theirs = Bindings(IF earlier THEN EarlierSchema ELSE Schema, type)
    /\ ours = [t \in DOMAIN theirs \cup DOMAIN Bindings(Schema, type) |-> Schema[t]]
    /\ source = default_instance(type)
    /\ lacks = {} /\ hop = 0
    /\ stream = Nothing /\ pos = 1 /\ stack = Nothing /\ broken = FALSE
    /\ errors = 0

\* The program fills its message in.
SetField(f) ==
    /\ hop = 0 /\ f \notin DOMAIN source.fields
    /\ \E value \in Values(FieldsOf(0, type)[f]) :
           /\ source' = With(source, f, value)
           /\ Cardinality(AllSet(0, source')) <= MaxFields
    /\ UNCHANGED <<type, earlier, theirs, ours, lacks, hop, stream, reading, errors>>
-----------------------------------------------------------------------------
(***************************************************************************)
(* Reading                                                                 *)
(***************************************************************************)
Top == stack[Len(stack)]
Root == stack[1].message

\* A call of merge_from, for the field into of the message around it.
Frame(message, into, entry, end) ==
    [message |-> message, into |-> into, entry |-> entry, end |-> end]

\* A message of the type sent is read from the start of the stream.
Begin(message) ==
    /\ pos' = 1 /\ broken' = FALSE
    /\ stack' = <<Frame(message, "", FALSE, Len(stream))>>

New ==
    /\ hop > 0 /\ stack = Nothing
    /\ Begin(default_instance(type))
    /\ UNCHANGED <<type, earlier, theirs, ours, source, lacks, hop, stream, errors>>

\* Mutation: every number is followed by something.
ExtentLong(part) == IF part.wt = "len" THEN 1 + part.v ELSE 2

\* The parts of what begins here: the tag and, if it has a length, as many as that.
Extent(part) == IF part.wt = "len" THEN 1 + part.v ELSE 1

\* Mutation: the number alone decides.
MatchesNumber(field, part) == part.num = field.num

Matches(field, part) == part.num = field.num /\ part.wt \in Tags(field)

\* The field, if any, that a tag stands for to the call of merge_from.
Hits(frame, part) ==
    LET t == frame.message.type
    IN  {f \in DOMAIN ours[t] : Knows(hop, t, f) /\ Matches(ours[t][f], part)}

Reads == hop > 0 /\ ~broken /\ stack # Nothing
AtTag == Reads /\ pos <= Top.end /\ "num" \in DOMAIN stream[pos]

Put(message) == [stack EXCEPT ![Len(stack)].message = message]

\* The value of a string, or a number.
ReadOne(part) == IF part.wt = "len" THEN stream[pos + 1].raw ELSE part.v

MergeScalar(f) ==
    LET part == stream[pos]
        field == ours[Top.message.type][f]
        old == Old(Top.message, f)
        raws == [i \in 1 .. part.v |-> stream[pos + i].raw]
    IN  /\ field.kind \in {"scalar", "repeated", "packed"}
        /\ stack' = Put(With(Top.message, f,
                CASE field.kind = "scalar"   -> ReadOne(part)
                  [] field.kind = "repeated" -> Append(old, ReadOne(part))
                  [] field.kind = "packed"   -> IF part.wt = "len" THEN old \o raws
                                                ELSE Append(old, part.v)))
        /\ pos' = pos + Extent(part)

\* A message or an entry of a map begins, and is read up to its length.
NewEntry(t) ==
    LET F == ours[t]
    IN  [type |-> t, unknown |-> Nothing,
         fields |-> [f \in DOMAIN F |-> IF F[f].kind = "message" THEN default_instance(F[f].type)
                                        ELSE Zero]]

MergeNested(f) ==
    LET part == stream[pos]
        field == ours[Top.message.type][f]
        message == IF field.kind = "map" THEN NewEntry(field.type)
                   ELSE default_instance(field.type)
    IN  /\ field.kind \in {"message", "messages", "map"}
        /\ stack' = Append(stack, Frame(message, f, field.kind = "map", pos + Extent(part) - 1))
        /\ pos' = pos + 1

\* It ends, and is stored.
Store(old, field, x) ==
    CASE field.kind = "message"  -> x
      [] field.kind = "messages" -> Append(old, x)
      [] field.kind = "map"      -> Assign(old, x.fields.key, x.fields.value)

EndNested ==
    /\ Reads /\ Len(stack) > 1 /\ pos > Top.end
    /\ LET outer == stack[Len(stack) - 1]
           m == outer.message
           f == Top.into
           value == Store(Old(m, f), ours[m.type][f], Top.message)
       IN  stack' = Append(SubSeq(stack, 1, Len(stack) - 2),
                           [outer EXCEPT !.message = With(m, f, value)])
    /\ UNCHANGED <<type, earlier, theirs, ours, source, lacks, hop, stream, pos, broken, errors>>

MergeField ==
    /\ AtTag
    /\ \E f \in Hits(Top, stream[pos]) : MergeScalar(f) \/ MergeNested(f)
    /\ UNCHANGED <<type, earlier, theirs, ours, source, lacks, hop, stream, broken, errors>>

\* What was unknown under a number, and more of it.
Keep(m, n, parts) ==
    LET old == IF n \in DOMAIN m.unknown THEN m.unknown[n] ELSE Nothing
    IN  [m EXCEPT !.unknown = Assign(@, n, old \o parts)]

\* A tag of no field: a message keeps what it stands for, an entry drops it.
read_unknown_or_skip_group ==
    /\ AtTag
    /\ Hits(Top, stream[pos]) = {}
    /\ LET parts == SubSeq(stream, pos, pos + Extent(stream[pos]) - 1)
       IN  stack' = IF Top.entry THEN stack ELSE Put(Keep(Top.message, stream[pos].num, parts))
    /\ pos' = pos + Extent(stream[pos])
    /\ UNCHANGED <<type, earlier, theirs, ours, source, lacks, hop, stream, broken, errors>>

merge_from == MergeField \/ EndNested \/ read_unknown_or_skip_group

\* An error of the stream ends all the calls; the outermost message keeps what
\* it has got.
BreakOff ==
    /\ Reads /\ pos <= Len(stream)
    /\ errors < MaxErrors /\ errors' = errors + 1
    /\ broken' = TRUE
    /\ stack' = <<stack[1]>>
    /\ UNCHANGED <<type, earlier, theirs, ours, source, lacks, hop, stream, pos>>

\* The message is used again.
Retry ==
    /\ broken
    /\ Begin(clear(Root))
    /\ UNCHANGED <<type, earlier, theirs, ours, source, lacks, hop, stream, errors>>
-----------------------------------------------------------------------------
(***************************************************************************)
(* The way                                                                 *)
(***************************************************************************)
Done == Reads /\ Len(stack) = 1 /\ pos > Len(stream)

\* What is written on one side is read, from the start, on the other.
Pass(parts) ==
    /\ hop' = hop + 1 /\ stream' = parts
    /\ pos' = 1 /\ stack' = Nothing
    /\ UNCHANGED <<type, earlier, theirs, ours, source, broken, errors>>

\* The relay may lack fields that are set; others make no difference.
Send ==
    /\ hop = 0
    /\ lacks' \in SUBSET AllSet(0, source)
    /\ Pass(Written(0, source))

Forward ==
    /\ hop = 1 /\ Done
    /\ Pass(Written(1, Root))
    /\ UNCHANGED lacks

Next ==
    \/ \E f \in DOMAIN FieldsOf(0, type) : SetField(f)
    \/ Send \/ New \/ merge_from \/ BreakOff \/ Retry \/ Forward

Spec == Init /\ [][Next]_vars
-----------------------------------------------------------------------------
(***************************************************************************)
(* Properties                                                              *)
(***************************************************************************)
Part == [num : Nat \ {0}, wt : {"len"}, v : Nat]
        \cup [num : Nat \ {0}, wt : {"varint", "fixed64"}, v : {Zero, a}]
        \cup [raw : {Zero, a}]

TypeOK ==
    /\ type \in Types /\ earlier \in BOOLEAN
    /\ source.type = type /\ DOMAIN source.fields \subseteq DOMAIN FieldsOf(0, type)
    /\ \A p \in lacks : p[1] \in DOMAIN ours
    /\ hop \in 0 .. 2
    /\ \A i \in DOMAIN stream : stream[i] \in Part
    /\ pos \in 1 .. Len(stream) + 1
    /\ \A i \in DOMAIN stack :
          LET m == stack[i].message IN DOMAIN m.fields \subseteq DOMAIN ours[m.type]
    /\ broken \in BOOLEAN /\ errors \in 0 .. MaxErrors

\* The bindings agree on every message of every schema: what the relay and the
\* reader have in the end is what was written, although the relay did not know
\* all of it, in the message or in those inside it, and although streams broke
\* off: no field is lost, none is taken for another, no part is read twice, and
\* an empty message or a default in a list is not the same as none.
NothingLost == hop = 2 /\ Done /\ ~earlier => Root = source

\* The relay, for its part, has every field it knows just as it was written:
\* lengths announced for the others never shift what follows them.
Plain(m) ==
    {f \in DOMAIN m.fields :
        Knows(1, m.type, f) /\ ours[m.type][f].kind \in {"scalar", "repeated", "packed"}}

RelayReads ==
    hop = 1 /\ Done /\ ~earlier =>
        /\ Plain(Root) = Plain(source)
        /\ \A f \in Plain(Root) : Root.fields[f] = source.fields[f]

\* A message that is used again after its stream broke off holds nothing of the
\* first try: never more than was sent.
NeverMore ==
    stack # Nothing /\ ~earlier =>
        /\ \A f \in DOMAIN Root.fields :
              ours[type][f].kind \in {"repeated", "packed", "messages"} =>
                  Len(Root.fields[f]) <= Len(source.fields[f])
        /\ unknown_fields_size(Root.unknown) <= Len(stream)

\* Fields whose number has another type now than in inventory.proto.old: what an
\* older program wrote is kept as unknown and is not taken for the field of
\* today.  The one exception is number 2 of NetworkDeviceList, where a map has
\* become a message.
Misread(m) ==
    \E f \in DOMAIN m.fields, g \in DOMAIN FieldsOf(0, m.type) :
        /\ FieldsOf(0, m.type)[g].num = ours[m.type][f].num
        /\ FieldsOf(0, m.type)[g] # ours[m.type][f]

NotMisread ==
    earlier /\ stack # Nothing /\ type # "NetworkDeviceList" =>
        \A m \in {Root} \cup Parts(hop, Root) : ~Misread(m)

\* Whatever is read stands at a tag or at the end of what it is in, and never
\* beyond it: the lengths that a program announces are those it writes, also when
\* it passes on what it does not know.  With that, reading comes to an end.
Aligned ==
    Reads => /\ pos <= Top.end + 1
             /\ pos > Top.end \/ "num" \in DOMAIN stream[pos]
=============================================================================
