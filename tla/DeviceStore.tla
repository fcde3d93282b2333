----------------------------- MODULE DeviceStore -----------------------------
(***************************************************************************)
(* The table DEVICE_DATA(ID INTEGER PRIMARY KEY, MSG) in which the gateway *)
(* parks the messages it cannot publish (data_manager.rs).                 *)
(*                                                                         *)
(* A table is a function from the ids of its rows to their messages.       *)
(* ID is an alias of SQLite's rowid and has no AUTOINCREMENT, so that an   *)
(* id is used again once the rows above it are gone.                       *)
(***************************************************************************)
EXTENDS Naturals, FiniteSets, Functions

MaxOf == INSTANCE FiniteSetsExt

RowId == Nat \ {0}

IsTable(t, Value) ==
    /\ IsFiniteSet(DOMAIN t)
    /\ DOMAIN t \subseteq RowId
    /\ t \in [DOMAIN t -> Value]

(* CREATE TABLE: no rows. *)
EmptyTable == [id \in {} |-> id]

(* The rowid SQLite gives to a new row: one past the largest in use.
   Mutants: ids start at 0, the id of a fresh datum; an id still in use is
   given out again.                                                        *)
NextRowIdFromZero(t) ==
    IF DOMAIN t = {} THEN 0 ELSE MaxOf!Max(DOMAIN t) + 1
NextRowIdInUse(t) == IF DOMAIN t = {} THEN 1 ELSE MaxOf!Max(DOMAIN t)
NextRowId(t) == IF DOMAIN t = {} THEN 1 ELSE MaxOf!Max(DOMAIN t) + 1

(* INSERT INTO DEVICE_DATA(MSG) VALUES(msg) *)
InsertRow(t, msg) ==
    [id \in DOMAIN t \cup {NextRowId(t)} |->
        IF id = NextRowId(t) THEN msg ELSE t[id]]

(* DELETE FROM DEVICE_DATA WHERE ID = row, no error if there is no such row *)
DeleteRow(t, row) == Restrict(t, DOMAIN t \ {row})

(* SELECT * FROM DEVICE_DATA is a scan in rowid order: the row it is at. *)
FirstRow(t) == MaxOf!Min(DOMAIN t)

=============================================================================
