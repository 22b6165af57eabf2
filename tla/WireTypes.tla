------------------------------- MODULE WireTypes -------------------------------
(***************************************************************************)
(* The fields of a message, as the generated bindings of src/proto treat   *)
(* them: the number and the wire type that make a field's tag, the type of *)
(* its values, and the kind, which decides how the field is merged, sized, *)
(* written and cleared.  A message is a record of its fields.  One module  *)
(* for each binding lists its messages.                                    *)
(***************************************************************************)

Field(num, wt, of, kind) == [num |-> num, wt |-> wt, type |-> of, kind |-> kind]

Str(num)    == Field(num, "len", "string", "scalar")
Bytes(num)  == Field(num, "len", "bytes", "scalar")
Bool(num)   == Field(num, "varint", "bool", "scalar")
Int32(num)  == Field(num, "varint", "int32", "scalar")
Int64(num)  == Field(num, "varint", "int64", "scalar")
UInt32(num) == Field(num, "varint", "uint32", "scalar")
UInt64(num) == Field(num, "varint", "uint64", "scalar")
Enum(num)   == Field(num, "varint", "enum", "scalar")    \* the number is kept, named or not
Double(num) == Field(num, "fixed64", "double", "scalar")

\* Repeated values: one entry of the stream for each string, one for all numbers.
Strs(num)    == Field(num, "len", "string", "repeated")
UInt32s(num) == Field(num, "varint", "uint32", "packed")
UInt64s(num) == Field(num, "varint", "uint64", "packed")

Msg(num, of)  == Field(num, "len", of, "message")
Msgs(num, of) == Field(num, "len", of, "messages")

\* A map is written as its entries, each like a message of two fields.
Map(num, entry)  == Field(num, "len", entry, "map")
StrEntry   == [key |-> Str(1), value |-> Str(2)]
BytesEntry == [key |-> Str(1), value |-> Bytes(2)]
Int32Entry == [key |-> Str(1), value |-> Int32(2)]

\* Messages of other repositories, of which nothing is known here.
External == [f \in {} |-> Str(1)]

WireMessages ==
    [StrEntry |-> StrEntry, BytesEntry |-> BytesEntry, Int32Entry |-> Int32Entry,
     L8MetaData |-> External, L8TimeSeriesPoint |-> External]
================================================================================
