----------------------------- MODULE SchemaText -----------------------------
(***************************************************************************)
(* parse_schema and the helpers that look for keys and brackets in a JSON  *)
(* text (wasm-engine/src/lib.rs).  They look for characters only: a key    *)
(* or a bracket inside a string is taken like any other.                   *)
(***************************************************************************)
EXTENDS JsonText

(* str::find; 0 is None. *)
Find(text, pattern) ==
    LET at == {i \in 1 .. Len(text) - Len(pattern) + 1 :
                   SubSeq(text, i, i + Len(pattern) - 1) = pattern}
    IN  IF at = {} THEN 0 ELSE Min(at)

FindFrom(text, i, ch) == SelectInSubSeq(text, i, Len(text), LAMBDA c : c = ch)

(* find_matching_bracket, find_matching_brace *)
Matching(text, start, open, close) ==
    LET Count(i, ch) == Cardinality({j \in start .. i : text[j] = ch})
        ends == {i \in start .. Len(text) :
                     text[i] = close /\ Count(i, open) = Count(i, close)}
    IN  IF ends = {} THEN 0 ELSE Min(ends)

(* What stands behind the first colon behind a key. *)
Behind(text, key) ==
    LET k == Find(text, Quoted(<<key>>))
        colon == FindFrom(text, k + 3, ":")
    IN  IF k = 0 \/ colon = 0 THEN Error
        ELSE Trim(SubSeq(text, colon + 1, Len(text)))

(* A string as far as its next quote. *)
UpToQuote(text) == SubSeq(text, 2, FindFrom(text, 2, Quote) - 1)

IsString(text) == text # Error /\ Head(text) = Quote /\ FindFrom(text, 2, Quote) # 0

(* extract_string *)
ExtractString(text, key) ==
    LET rest == Behind(text, key) IN
    IF IsString(rest) THEN Unescape(UpToQuote(rest)) ELSE Error

(* extract_bool, with the default parse_column takes. *)
ExtractBool(text, key) ==
    LET rest == Behind(text, key) IN rest # Error /\ Head(rest) = "true"

-----------------------------------------------------------------------------

SimpleTypes == {"Int32", "UInt32", "Float64", "Bool"}

ColumnType(text) ==
    LET rest == Behind(text, "type")
        inner == SubSeq(rest, 1, FindFrom(rest, 1, "}"))
    IN
    CASE IsString(rest) ->
            IF Len(UpToQuote(rest)) = 1 /\ UpToQuote(rest)[1] \in SimpleTypes
            THEN UpToQuote(rest)[1] ELSE Error
      [] rest # Error /\ Head(rest) = "{" /\ Contains(inner, "VarChar") -> "VarChar"
      [] rest # Error /\ Head(rest) = "{" /\ ~Contains(inner, "VarChar")
            /\ Contains(inner, "Blob") -> "Blob"
      [] OTHER -> Error

(* Mutant of ParseColumn: a column is nullable by default. *)
ParseColumnNullable(text) ==
    LET name == ExtractString(text, "name")
        type == ColumnType(text)
    IN  IF name = Error \/ type = Error THEN Error
        ELSE [name |-> name, type |-> type, nullable |-> TRUE]

ParseColumn(text) ==
    LET name == ExtractString(text, "name")
        type == ColumnType(text)
    IN  IF name = Error \/ type = Error THEN Error
        ELSE [name |-> name, type |-> type,
              nullable |-> ExtractBool(text, "nullable")]

ParseSchema(text) ==
    LET columns == Find(text, Quoted(<<"columns">>))
        open == FindFrom(text, columns, "[")
        close == Matching(text, open, "[", "]")
        list == SubSeq(text, open + 1, close - 1)
        parsed[i \in 1 .. Len(list) + 1] ==
            LET start == FindFrom(list, i, "{")
                end == Matching(list, start, "{", "}")
            IN  CASE start = 0 -> << >>
                  [] start # 0 /\ end = 0 -> <<Error>>
                  [] OTHER -> <<ParseColumn(SubSeq(list, start, end))>> \o parsed[end + 1]
    IN  IF columns = 0 \/ open = 0 \/ close = 0 THEN Error
        ELSE IF parsed[1] = << >> \/ Contains(parsed[1], Error) THEN Error
        ELSE parsed[1]

=============================================================================
