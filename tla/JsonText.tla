------------------------------ MODULE JsonText ------------------------------
(***************************************************************************)
(* The JSON helpers of wasm-engine/src/lib.rs, which has no JSON library,  *)
(* and JSON.stringify, which writes what they read.                        *)
(*                                                                         *)
(* A text is a sequence of characters.  A word the program looks for, a    *)
(* name of a type and a number are one character each: nothing looks into  *)
(* them.  Maximal lengths of columns, Blob columns and the errors' texts   *)
(* are left out.                                                           *)
(***************************************************************************)
EXTENDS TupleCodec, TLC

CONSTANTS
    Numerals,       \* the integers that words stand for
    Floats,         \* the bytes of the Float64 values that words stand for
    Error           \* stands for Err

Quote == "\""
Backslash == "\\"
Newline == "\n"
FormFeed == "\f"    \* stands for the control characters with no escape below

-----------------------------------------------------------------------------

(* escape_json_string and its inverse know these escapes (and \r and \t). *)
Escapes == Quote :> Quote @@ Backslash :> Backslash @@ Newline :> "n"

StringifyEscapes == FormFeed :> "f" @@ Escapes

Escape(text, escapes) ==
    FlattenSeq([i \in DOMAIN text |->
        IF text[i] \in DOMAIN escapes
        THEN <<Backslash, escapes[text[i]]>> ELSE <<text[i]>>])

(* unescape_json_string: an escape it does not know stays as it is. *)
Unescape(text) ==
    LET Known(ch) == {c \in DOMAIN Escapes : Escapes[c] = ch}
        Read(s, ch) ==
            IF ~s.escape
            THEN IF ch = Backslash THEN [s EXCEPT !.escape = TRUE]
                 ELSE [s EXCEPT !.out = Append(@, ch)]
            ELSE [escape |-> FALSE,
                  out |-> s.out \o IF Known(ch) = {} THEN <<Backslash, ch>>
                                   ELSE <<CHOOSE c \in Known(ch) : TRUE>>]
        end == FoldLeft(Read, [out |-> << >>, escape |-> FALSE], text)
    IN  IF end.escape THEN Append(end.out, Backslash) ELSE end.out

Quoted(text) == <<Quote>> \o text \o <<Quote>>

IsQuoted(text) == Len(text) > 1 /\ Head(text) = Quote /\ Last(text) = Quote

Unquoted(text) == SubSeq(text, 2, Len(text) - 1)

Trim(text) ==
    LET kept == {i \in DOMAIN text : text[i] # " "} IN
    IF kept = {} THEN << >> ELSE SubSeq(text, Min(kept), Max(kept))

(* Vec::join *)
Joined(parts) ==
    FlattenSeq([i \in DOMAIN parts |->
        IF i = 1 THEN parts[i] ELSE <<",">> \o parts[i]])

-----------------------------------------------------------------------------

(* Mutant of SplitStep: an escaped quote ends the string. *)
SplitStepNoEscape(s, ch) ==
    CASE ch = Quote ->
            [s EXCEPT !.current = Append(@, ch), !.in_string = ~@]
      [] ch # Quote /\ s.in_string -> [s EXCEPT !.current = Append(@, ch)]
      [] ch \in {"{", "["} /\ ~s.in_string ->
            [s EXCEPT !.current = Append(@, ch), !.depth = @ + 1]
      [] ch \in {"}", "]"} /\ ~s.in_string ->
            [s EXCEPT !.current = Append(@, ch), !.depth = @ - 1]
      [] ch = "," /\ ~s.in_string /\ s.depth = 0 ->
            [s EXCEPT !.parts = Append(@, Trim(s.current)), !.current = << >>]
      [] OTHER -> [s EXCEPT !.current = Append(@, ch)]

SplitStep(s, ch) ==
    LET kept == [s EXCEPT !.current = Append(@, ch)] IN
    CASE s.escape -> [kept EXCEPT !.escape = FALSE]
      [] ~s.escape /\ s.in_string /\ ch = Backslash -> [kept EXCEPT !.escape = TRUE]
      [] ~s.escape /\ ch = Quote -> [kept EXCEPT !.in_string = ~@]
      [] ~s.in_string /\ ch \in {"{", "["} -> [kept EXCEPT !.depth = @ + 1]
      [] ~s.in_string /\ ch \in {"}", "]"} -> [kept EXCEPT !.depth = @ - 1]
      [] ~s.in_string /\ ch = "," /\ s.depth = 0 ->
            [s EXCEPT !.parts = Append(@, Trim(s.current)), !.current = << >>]
      [] OTHER -> kept

(* split_json_array *)
Split(text) ==
    LET start == [parts |-> << >>, current |-> << >>, depth |-> 0,
                  in_string |-> FALSE, escape |-> FALSE]
        end == FoldLeft(SplitStep, start, text)
        last == Trim(end.current)
    IN  IF last = << >> THEN end.parts ELSE Append(end.parts, last)

(* parse_values, for one column. *)
ParseValue(part, column) ==
    CASE part = <<"null">> -> IF column.nullable THEN Null ELSE Error
      [] column.type = "VarChar" /\ IsQuoted(part) -> Value(Unescape(Unquoted(part)))
      [] column.type = "Bool" /\ part \in {<<"true">>, <<"false">>} ->
            Value(part = <<"true">>)
      [] column.type = "Int32" /\ Len(part) = 1 /\ part[1] \in DOMAIN Numerals ->
            Value(Numerals[part[1]])
      [] column.type = "UInt32" /\ Len(part) = 1 /\ part[1] \in DOMAIN Numerals
            /\ Numerals[part[1]] >= 0 -> Value(Numerals[part[1]])
      [] column.type = "Float64" /\ Len(part) = 1 /\ part[1] \in DOMAIN Floats ->
            Value(Floats[part[1]])
      [] OTHER -> Error

ParseValues(text, schema) ==
    LET parts == Split(SubSeq(text, 2, Len(text) - 1))
        values == [i \in DOMAIN parts |-> ParseValue(Trim(parts[i]), schema[i])]
    IN  IF Len(parts) # Len(schema) \/ Error \in ToSet(values) THEN Error ELSE values

(* values_to_json *)
PrintValue(value, column) ==
    CASE value = Null -> <<"null">>
      [] value # Null /\ column.type = "VarChar" -> Quoted(Escape(value.data, Escapes))
      [] value # Null /\ column.type = "Bool" -> <<IF value.data THEN "true" ELSE "false">>
      [] value # Null /\ column.type = "Float64" ->
            <<CHOOSE w \in DOMAIN Floats : Floats[w] = value.data>>
      [] OTHER -> <<CHOOSE w \in DOMAIN Numerals : Numerals[w] = value.data>>

PrintValues(values, schema) ==
    <<"[">> \o Joined([i \in DOMAIN values |-> PrintValue(values[i], schema[i])]) \o <<"]">>

=============================================================================
