---------------------------- MODULE MCDbOperator ----------------------------
(* One Db CR and one DbServer CR in one operator, for TLC.                 *)
EXTENDS DbOperator

OwnNames == [k \in Db |-> k]
=============================================================================
