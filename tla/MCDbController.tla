--------------------------- MODULE MCDbController ---------------------------
(* An instance of DbController for TLC.                                    *)
EXTENDS DbController

(* Every Db CR names its own database.                                     *)
OwnNames == [k \in Db |-> k]
=============================================================================
