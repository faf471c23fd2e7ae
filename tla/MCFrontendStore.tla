-------------------------- MODULE MCFrontendStore --------------------------
(***************************************************************************)
(* FrontendStore for TLC: two plain names, and one each that is listed as  *)
(* a plain one (\u0061), as two (a","b), and not at all (C:\x); a schema   *)
(* of each of these kinds but the second; two pages, and configurations    *)
(* beyond every bound.                                                     *)
(***************************************************************************)
EXTENDS FrontendStore

CONSTANTS a, b, escaped, quoting, drive, plain1, plain2, escaped1, drive1

MCPlain == {a, b, plain1, plain2}

(* Each of these names alone; together they are as right or wrong as alone. *)
ListedAs == a :> {a} @@ b :> {b} @@ escaped :> {a} @@ quoting :> {a, b}

MCListings ==
    [S \in SUBSET Names |->
        IF drive \in S THEN {Throws} ELSE {UNION {ListedAs[name] : name \in S}}]

MCPrinted ==
    plain1 :> plain1 @@ plain2 :> plain2 @@ escaped1 :> plain1 @@ drive1 :> Throws

Config(page, pool, disk, threshold) ==
    [page_size |-> page, pool_size |-> pool, disk_capacity |-> disk,
     overflow_threshold |-> threshold]

TypedConfigs ==
    {Config(65, 40, 1, 0), Config(9000, -1, 300, 9100)}

=============================================================================
