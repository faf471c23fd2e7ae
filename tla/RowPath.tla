------------------------------ MODULE RowPath ------------------------------
(***************************************************************************)
(* The way of one row through the engine: the page's JSON text of a table  *)
(* and of a row (JSON.stringify), the schema and the values the engine     *)
(* reads in them, the tuple, the overflow pointers patched into it, and    *)
(* back through decode_tuple and values_to_json to the text JSON.parse     *)
(* gets.  Where the bytes are kept meanwhile is the matter of TableHeap;   *)
(* here the spilled values get any pages.                                  *)
(***************************************************************************)
EXTENDS SchemaText

CONSTANTS
    Inputs,         \* the tables and rows a user types: [columns, row]
    Pages           \* the pages spilled values are put on

VARIABLES
    input,          \* what is typed
    at,             \* how far it has come
    schema, values, tuple, text,
    todo,           \* the spilled columns that have no page yet
    store           \* the spilled values on their pages

vars == <<input, at, schema, values, tuple, text, todo, store>>

-----------------------------------------------------------------------------

(* JSON.stringify of typed values: strings, and what is written as it is. *)
Typed(value) ==
    IF "string" \in DOMAIN value
    THEN Quoted(Escape(value.string, StringifyEscapes)) ELSE value.literal

TypedRow(row) ==
    <<"[">> \o Joined([c \in DOMAIN row |-> Typed(row[c])]) \o <<"]">>

Pair(key, text_) == Quoted(<<key>>) \o <<":">> \o text_

TypedType(type) ==
    IF type = "VarChar" THEN <<"{">> \o Pair(type, <<"32">>) \o <<"}">>
    ELSE Quoted(<<type>>)

TypedColumn(column) ==
    <<"{">> \o Joined(<<
        Pair("name", Quoted(Escape(column.name, StringifyEscapes))),
        Pair("type", TypedType(column.type)),
        Pair("nullable", <<IF column.nullable THEN "true" ELSE "false">>)>>) \o <<"}">>

TypedSchema(columns) ==
    <<"{">> \o Pair("columns",
        <<"[">> \o Joined([c \in DOMAIN columns |-> TypedColumn(columns[c])]) \o <<"]">>)
    \o <<"}">>

-----------------------------------------------------------------------------

Init ==
    /\ input \in Inputs
    /\ at = "typed"
    /\ schema = << >> /\ values = << >> /\ tuple = << >> /\ text = << >>
    /\ todo = << >>
    /\ store = [p \in {} |-> << >>]

(* create_table *)
CreateTable ==
    LET parsed == ParseSchema(TypedSchema(input.columns)) IN
    /\ at = "typed"
    /\ at' = IF parsed = Error THEN "no table" ELSE "table"
    /\ schema' = IF parsed = Error THEN schema ELSE parsed
    /\ UNCHANGED <<input, values, tuple, text, todo, store>>

(* insert reads the values, *)
ReadValues ==
    LET parsed == ParseValues(TypedRow(input.row), schema) IN
    /\ at = "table"
    /\ at' = IF parsed = Error THEN "no row" ELSE "values"
    /\ values' = IF parsed = Error THEN values ELSE parsed
    /\ UNCHANGED <<input, schema, tuple, text, todo, store>>

(* encodes them, *)
Encode ==
    /\ at = "values"
    /\ at' = "tuple"
    /\ tuple' = EncodeTuple(schema, values)
    /\ todo' = SpilledColumns(schema, values)
    /\ UNCHANGED <<input, schema, values, text, store>>

(* and gives each spilled value its pages and its pointer. *)
Spill ==
    /\ at = "tuple"
    /\ todo # << >>
    /\ \E p \in Pages \ DOMAIN store :
        LET data == Content(values[Head(todo)]) IN
        /\ store' = store @@ p :> data
        /\ tuple' = PatchPointer(schema, tuple, Head(todo), PointerTo(p, Len(data)))
    /\ todo' = Tail(todo)
    /\ UNCHANGED <<input, at, schema, values, text>>

(* get: a placeholder becomes the text its pointer leads to. *)
Resolved(column, value) ==
    IF IsPlaceholder(column, value) THEN Value(store[PageOf(value.blob)]) ELSE value

Get ==
    LET decoded == DecodeTuple(schema, tuple) IN
    /\ at = "tuple"
    /\ todo = << >>
    /\ at' = "got"
    /\ values' = [c \in DOMAIN decoded |-> Resolved(schema[c], decoded[c])]
    /\ UNCHANGED <<input, schema, tuple, text, todo, store>>

ToJson ==
    /\ at = "got"
    /\ at' = "printed"
    /\ text' = PrintValues(values, schema)
    /\ UNCHANGED <<input, schema, values, tuple, todo, store>>

Next == CreateTable \/ ReadValues \/ Encode \/ Spill \/ Get \/ ToJson

Spec == Init /\ [][Next]_vars

-----------------------------------------------------------------------------

(***************************************************************************)
(* The columns of a table are those typed: as many, unless a name with an  *)
(* opening brace stands before one with a closing brace, which makes one   *)
(* column of the two; of the same types, whatever their names are; with    *)
(* the same names, unless a quote or an unknown escape is in one; and      *)
(* nullable as typed, unless a name is that of the key "nullable", which   *)
(* extract_bool finds in the name's place.                                 *)
(***************************************************************************)
HasName(column, chars) == ToSet(column.name) \cap chars # {}

BracesMeet ==
    \E b, c \in DOMAIN input.columns :
        b < c /\ HasName(input.columns[b], {"{"}) /\ HasName(input.columns[c], {"}"})

SchemaAsTyped ==
    at \notin {"typed", "no table"} =>
        /\ Len(schema) <= Len(input.columns)
        /\ Len(schema) < Len(input.columns) => BracesMeet
        /\ Len(schema) = Len(input.columns) =>
            \A c \in DOMAIN schema :
                LET typed == input.columns[c] IN
                /\ schema[c].type = typed.type
                /\ ~HasName(typed, {Quote, FormFeed}) => schema[c].name = typed.name
                /\ ~HasName(typed, {"nullable"}) => schema[c].nullable = typed.nullable

(***************************************************************************)
(* A table is refused only for a bracket or a brace in a column's name,    *)
(* which the helpers take for JSON ones; a row only if a value is not of   *)
(* its column's type, and then always.                                     *)
(***************************************************************************)
Fits(value, column) ==
    CASE "string" \in DOMAIN value -> column.type = "VarChar"
      [] "literal" \in DOMAIN value ->
            LET word == value.literal IN
            \/ word = <<"null">> /\ column.nullable
            \/ column.type = "Bool" /\ word \in {<<"true">>, <<"false">>}
            \/ /\ column.type \in {"Int32", "UInt32"}
               /\ Len(word) = 1 /\ word[1] \in DOMAIN Numerals
               /\ column.type = "UInt32" => Numerals[word[1]] >= 0
            \/ column.type = "Float64" /\ Len(word) = 1 /\ word[1] \in DOMAIN Floats

RowFits ==
    /\ Len(input.row) = Len(schema)
    /\ \A c \in DOMAIN schema : Fits(input.row[c], schema[c])

RefusedRightly ==
    /\ at = "no table" =>
        \E c \in DOMAIN input.columns : HasName(input.columns[c], {"[", "]", "{", "}"})
    /\ at = "no row" => ~RowFits
    /\ at \in {"values", "tuple", "got", "printed"} => RowFits

(***************************************************************************)
(* The text a row comes back as is the one JSON.stringify writes of the    *)
(* row that was typed, so JSON.parse gives the page that row again: no     *)
(* quote, comma, bracket or backslash in a text divides or ends it, Null   *)
(* and the text "null" stay apart, and a spilled text replaces its pointer *)
(* and no other.  An escape the engine does not know comes back as the two *)
(* characters JSON writes it with.                                         *)
(***************************************************************************)
Kept(value) ==
    IF "string" \in DOMAIN value
    THEN [string |-> Escape(value.string, FormFeed :> "f")] ELSE value

RowAsTyped ==
    at = "printed" =>
        text = TypedRow([c \in DOMAIN input.row |-> Kept(input.row[c])])

(***************************************************************************)
(* The pointers are patched into a tuple that is already encoded, each     *)
(* after a walk over bytes patched before.  What comes of it is the tuple  *)
(* one would have encoded with the pointers at hand: every spilled column  *)
(* leads to its own value, and no other byte has changed.                  *)
(***************************************************************************)
EncodedWith(pages) ==
    NullBitmap(schema, values) \o
    FlattenSeq([c \in DOMAIN schema |->
        IF c \in DOMAIN pages
        THEN Bytes(Sentinel, 2) \o PointerTo(pages[c], Len(store[pages[c]]))
        ELSE EncodeColumn(schema[c], values[c])])

PatchedAsEncoded ==
    at = "tuple" =>
        LET done == ToSet(SpilledColumns(schema, values)) \ ToSet(todo) IN
        \E pages \in [done -> DOMAIN store] :
            /\ \A c \in done : store[pages[c]] = Content(values[c])
            /\ tuple = EncodedWith(pages)

=============================================================================
