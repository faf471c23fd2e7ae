----------------------------- MODULE MCRowPath -----------------------------
(***************************************************************************)
(* RowPath for TLC: texts of up to three characters, the longest of them   *)
(* spilled; rows of three columns with values of all kinds in them; rows   *)
(* of nine columns, whose null bitmap has two bytes; and tables whose      *)
(* columns have names, the first of up to two or both of one, of the       *)
(* characters and keys that parse_schema looks for.                        *)
(***************************************************************************)
EXTENDS RowPath

String(text_) == [string |-> text_]
Literal(word) == [literal |-> <<word>>]

Column(name, type, nullable) == [name |-> name, type |-> type, nullable |-> nullable]

Characters == {Quote, Backslash, Newline, FormFeed, "n", "f", ",", "]", " ", "null"}

OneText ==
    {[columns |-> <<Column(<<"a">>, "VarChar", TRUE)>>, row |-> <<String(t)>>] :
        t \in BoundedSeq(Characters, 3)}

Texts == {<< >>, <<"null">>, <<Quote, ",">>, <<Backslash>>, <<"[">>,
          <<Quote, Quote, "}">>, <<",", Backslash, Quote>>}

Literals ==
    {Literal(w) : w \in {"-1", "300", "0.5", "true", "null"}} \cup
    {[literal |-> <<"[", "300", ",", "300", "]">>]}

MixedRows ==
    {<<n, String(s), u>> : n \in Literals, s \in Texts,
                           u \in {String(t) : t \in Texts} \cup {Literal("null")}}

Mixed ==
    {[columns |-> <<Column(<<"a">>, type, FALSE), Column(<<"b">>, "VarChar", FALSE),
                    Column(<<"c">>, "VarChar", TRUE)>>, row |-> row] :
        type \in {"Int32", "UInt32"}, row \in MixedRows}

Nine ==
    {[columns |-> [c \in 1 .. 9 |->
                       Column(<<"a">>, IF c = 9 THEN "VarChar"
                                       ELSE IF c = 2 THEN "Float64" ELSE "Bool", TRUE)],
      row |-> [c \in 1 .. 9 |->
                   IF c \in nulls THEN Literal("null")
                   ELSE IF c = 9 THEN String(<<"f", "n", "n">>)
                   ELSE IF c = 2 THEN Literal("0.5") ELSE Literal("true")]] :
        nulls \in {{}, {1}, {2, 8}, {9}, {1, 9}}}

NamePieces ==
    {Quote, Backslash, FormFeed, "a", "[", "]", "{", "}", ":", "type", "nullable"}

Named ==
    {[columns |-> <<Column(name, "VarChar", nullable), Column(<<"b">>, "Bool", TRUE)>>,
      row |-> <<Literal("null"), Literal("true")>>] :
        name \in BoundedSeq(NamePieces, 2), nullable \in BOOLEAN}

TwoNamed ==
    {[columns |-> <<Column(<<one>>, "VarChar", TRUE), Column(<<two>>, "Bool", nullable)>>,
      row |-> <<Literal("null"), Literal("true")>>] :
        one \in NamePieces, two \in NamePieces, nullable \in BOOLEAN}

RowInputs == OneText \cup Mixed \cup Nine \cup Named \cup TwoNamed

RowNumerals == ("-1" :> -1) @@ ("300" :> 300)
RowFloats == ("0.5" :> <<0, 0, 0, 0, 0, 0, 224, 63>>)

=============================================================================
