------------------------------ MODULE ConnPool ------------------------------
(***************************************************************************)
(* The connection pool of database/sql as internal/db/db.go sets it up for *)
(* one process: at most MaxOpen connections at a time, 0 for any number.   *)
(* Who finds none free waits until one comes back.                         *)
(***************************************************************************)
EXTENDS Naturals

CONSTANT MaxOpen  \* database.max_open_conns

ASSUME PoolAssumption == MaxOpen \in Nat

VARIABLE inUse  \* connections that are handed out

PoolTypeOK == inUse \in Nat

PoolInit == inUse = 0

Free == MaxOpen = 0 \/ inUse < MaxOpen

Get == Free /\ inUse' = inUse + 1

Put(n) == inUse' = inUse - n

=============================================================================
