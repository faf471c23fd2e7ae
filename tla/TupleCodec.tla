----------------------------- MODULE TupleCodec -----------------------------
(***************************************************************************)
(* The binary format of tuples (storage/schema.rs): how a row is encoded,  *)
(* how the pointers to spilled columns get into it afterwards, and how it  *)
(* is decoded.                                                             *)
(*                                                                         *)
(* A tuple is a sequence of bytes.  Integers, lengths, pointers and the    *)
(* null bitmap are the real ones; a character of a text is one byte, and   *)
(* the value of a Float64 is its bytes.                                    *)
(***************************************************************************)
EXTENDS Integers, SequencesExt

CONSTANT Threshold      \* overflow_threshold

Sentinel == 65535       \* OVERFLOW_SENTINEL
PointerBytes == 8       \* OverflowPointer::SIZE

FixedSize ==
    [Int32 |-> 4, UInt32 |-> 4, Float64 |-> 8, Bool |-> 1, VarChar |-> 2, Blob |-> 2]

IsVariable(column) == column.type \in {"VarChar", "Blob"}

BitmapSize(schema) == (Len(schema) + 7) \div 8

(* to_le_bytes, of an i32 in two's complement. *)
Bytes(n, width) == [i \in 1 .. width |-> (n \div 256 ^ (i - 1)) % 256]

Zeros(width) == [i \in 1 .. width |-> 0]

(* from_le_bytes of unsigned and of signed integers. *)
Unsigned(bytes) == SumFunction([i \in DOMAIN bytes |-> bytes[i] * 256 ^ (i - 1)])

Signed(bytes) ==
    Unsigned(Front(bytes)) +
        (IF Last(bytes) < 128 THEN Last(bytes) ELSE Last(bytes) - 256)
            * 256 ^ (Len(bytes) - 1)

(* OverflowPointer::encode and decode *)
PointerTo(p, len) == Bytes(p, 4) \o Bytes(len, 4)

PageOf(pointer) == Unsigned(SubSeq(pointer, 1, 4))

(* A value is Null, or it has data; a Blob has bytes in their place. *)
Null == [null |-> TRUE]

Value(data) == [data |-> data]

Blob(bytes) == [blob |-> bytes]

Content(value) == IF "blob" \in DOMAIN value THEN value.blob ELSE value.data

-----------------------------------------------------------------------------

(* encode_tuple_with_overflow *)
Spills(column, value) ==
    IsVariable(column) /\ value # Null /\ Len(Content(value)) > Threshold

SpilledColumns(schema, values) ==
    SelectSeq([c \in DOMAIN schema |-> c], LAMBDA c : Spills(schema[c], values[c]))

(* Mutant of NullBitmap: only the first byte is used. *)
NullBitmapOneByte(schema, values) ==
    [b \in 1 .. BitmapSize(schema) |->
        IF b > 1 THEN 0
        ELSE SumSet({2 ^ (c - 1) : c \in {d \in DOMAIN values : d < 9 /\ values[d] = Null}})]

NullBitmap(schema, values) ==
    [b \in 1 .. BitmapSize(schema) |->
        SumSet({2 ^ ((c - 1) % 8) : c \in {d \in DOMAIN values :
                                              values[d] = Null /\ (d - 1) \div 8 = b - 1}})]

EncodeColumn(column, value) ==
    CASE value = Null -> Zeros(FixedSize[column.type])
      [] Spills(column, value) -> Bytes(Sentinel, 2) \o Zeros(PointerBytes)
      [] IsVariable(column) /\ value # Null /\ ~Spills(column, value) ->
            Bytes(Len(Content(value)), 2) \o Content(value)
      [] column.type \in {"Int32", "UInt32"} /\ value # Null -> Bytes(value.data, 4)
      [] column.type = "Bool" /\ value # Null -> <<IF value.data THEN 1 ELSE 0>>
      [] column.type = "Float64" /\ value # Null -> value.data

EncodeTuple(schema, values) ==
    NullBitmap(schema, values) \o
    FlattenSeq([c \in DOMAIN schema |-> EncodeColumn(schema[c], values[c])])

-----------------------------------------------------------------------------

(* Where a column's bytes begin: both walks skip the columns before it. *)
SizeAt(tuple, offset, column) ==
    LET len == Unsigned(SubSeq(tuple, offset + 1, offset + 2)) IN
    FixedSize[column.type] +
        (IF ~IsVariable(column) THEN 0
         ELSE IF len = Sentinel THEN PointerBytes ELSE len)

Offset(schema, tuple, c) ==
    FoldLeft(LAMBDA offset, column : offset + SizeAt(tuple, offset, column),
             BitmapSize(schema), SubSeq(schema, 1, c - 1))

(* Mutant of PatchPointer: the data of the columns before it is not skipped. *)
PatchPointerFixed(schema, tuple, c, pointer) ==
    LET sizes == [d \in 1 .. c - 1 |-> FixedSize[schema[d].type]]
        start == BitmapSize(schema) + SumFunction(sizes) + 2
    IN  [i \in DOMAIN tuple |->
            IF i \in start + 1 .. start + PointerBytes THEN pointer[i - start]
            ELSE tuple[i]]

(* patch_overflow_pointer: behind the two bytes of the sentinel. *)
PatchPointer(schema, tuple, c, pointer) ==
    LET start == Offset(schema, tuple, c) + 2 IN
    [i \in DOMAIN tuple |->
        IF i \in start + 1 .. start + PointerBytes THEN pointer[i - start] ELSE tuple[i]]

IsNull(tuple, c) == (tuple[(c - 1) \div 8 + 1] \div 2 ^ ((c - 1) % 8)) % 2 = 1

(* decode_tuple *)
DecodeColumn(schema, tuple, c) ==
    LET type == schema[c].type
        start == Offset(schema, tuple, c)
        bytes == SubSeq(tuple, start + 1, start + SizeAt(tuple, start, schema[c]))
        text == SubSeq(bytes, 3, Len(bytes))
    IN
    CASE IsNull(tuple, c) -> Null
      [] ~IsNull(tuple, c) /\ type = "UInt32" -> Value(Unsigned(bytes))
      [] ~IsNull(tuple, c) /\ type = "Int32" -> Value(Signed(bytes))
      [] ~IsNull(tuple, c) /\ type = "Float64" -> Value(bytes)
      [] ~IsNull(tuple, c) /\ type = "Bool" -> Value(bytes[1] # 0)
      [] ~IsNull(tuple, c) /\ type = "Blob" -> Blob(text)
      [] ~IsNull(tuple, c) /\ type = "VarChar" ->
            IF Unsigned(SubSeq(bytes, 1, 2)) = Sentinel THEN Blob(text) ELSE Value(text)

DecodeTuple(schema, tuple) ==
    [c \in DOMAIN schema |-> DecodeColumn(schema, tuple, c)]

(* is_overflow_placeholder *)
IsPlaceholder(column, value) ==
    /\ column.type = "VarChar"
    /\ "blob" \in DOMAIN value
    /\ Len(value.blob) = PointerBytes

=============================================================================
