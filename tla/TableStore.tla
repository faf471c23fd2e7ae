----------------------------- MODULE TableStore -----------------------------
(***************************************************************************)
(* What the storage engine promises to its user: named tables, rows that   *)
(* are in one of them under an id no other row has, and nothing that       *)
(* changes a row but its deletion.  A call that fails changes nothing.     *)
(*                                                                         *)
(* The actions say how the rows before and after a call are related; they  *)
(* are there to be implemented, not to be executed.                        *)
(***************************************************************************)
CONSTANTS
    TableNames,
    Rows            \* the rows a user can insert

VARIABLES
    names,          \* the names of the tables that exist
    rows            \* a record [table, id, row] for each row

vars == <<names, rows>>

Init == names = {} /\ rows = {}

CreateTable ==
    /\ \E n \in TableNames \ names : names' = names \cup {n}
    /\ UNCHANGED rows

DropTable ==
    \E n \in names :
        /\ names' = names \ {n}
        /\ rows' = {r \in rows : r.table # n}

Insert ==
    \E new \in rows' \ rows :
        /\ rows' = rows \cup {new}
        /\ new.table \in names
        /\ new.row \in Rows
        /\ \A r \in rows : r.id # new.id
        /\ UNCHANGED names

Delete ==
    \E old \in rows \ rows' :
        /\ rows' = rows \ {old}
        /\ UNCHANGED names

Next == CreateTable \/ DropTable \/ Insert \/ Delete

Spec == Init /\ [][Next]_vars

=============================================================================
