------------------------- MODULE MCSchemaController -------------------------
(* An instance of SchemaController for TLC.                                *)
EXTENDS SchemaController

Plain == [name |-> "app1", drop |-> TRUE, cascade |-> FALSE, creator |-> FALSE]

SpecsMC == {Plain,
            [Plain EXCEPT !.cascade = TRUE, !.creator = TRUE],
            [Plain EXCEPT !.name = "app2"]}
=============================================================================
