-------------------------- MODULE MCUserController --------------------------
(* An instance of UserController for TLC.                                  *)
EXTENDS UserController

Entry == [privType |-> "", scope |-> <<"d">>, table |-> <<>>, privs |-> {},
          defaultPrivs |-> {}, slash |-> FALSE, grantor |-> ""]

Column(name, cols) == [name |-> name, cols |-> cols, typed |-> TRUE]
Whole(name) == [name |-> name, cols |-> {}, typed |-> FALSE]

SpecsMC ==
    [owner |->
        [srv |-> [on |-> {"CREATEDB"}, off |-> {}],
         entries |-> <<[Entry EXCEPT !.privs = {"ALL"}],
                       [Entry EXCEPT !.privType = "table", !.scope = <<"d", "app", "ALL">>,
                                     !.privs = {"SELECT"}]>>,
         drop |-> TRUE, opts |-> {"owned"}, gen |-> TRUE],
     reader |->
        [srv |-> [on |-> {}, off |-> {"CREATEDB"}],
         entries |-> <<[Entry EXCEPT !.privs = {"CONNECT", "TEMP"}],
                       [Entry EXCEPT !.privType = "schema", !.scope = <<"d", "app">>,
                                     !.privs = {"USAGE"}],
                       [Entry EXCEPT !.scope = <<"d", "TABLES">>, !.defaultPrivs = {"SELECT"},
                                     !.grantor = "m"]>>,
         drop |-> TRUE, opts |-> {"revoke"}, gen |-> TRUE],
     auditor |->
        [srv |-> [on |-> {"LOGIN"}, off |-> {}],
         entries |-> <<[Entry EXCEPT !.privs = {"BACKUP"}], [Entry EXCEPT !.privs = {"TEMP"}]>>,
         drop |-> TRUE, opts |-> {"revoke"}, gen |-> FALSE],
     rows |->
        [server |-> {Whole("PROCESS")},
         entries |-> <<[scope |-> <<"d", "t">>, privs |-> {Whole("SELECT"), Whole("UPDATE")}]>>,
         drop |-> TRUE, opts |-> {}, gen |-> FALSE],
     columns |->
        [server |-> {},
         entries |-> <<[scope |-> <<"d", "t">>,
                        privs |-> {Whole("INSERT"), Column("UPDATE", {"a", "b"})}]>>,
         drop |-> FALSE, opts |-> {}, gen |-> TRUE]]

SpecNamesMC == [PostgreSQL |-> {"owner", "reader"}, CockroachDB |-> {"auditor"},
                MySQL |-> {"rows", "columns"}]

DriftMC == [PostgreSQL |-> {<<<<"database", "d">>, "CREATE">>},
            CockroachDB |-> {<<<<"database", "d">>, "RESTORE">>},
            MySQL |-> {<<<<"d", "t">>, "SELECT">>}]

PublicMC == {<<<<"database", "d">>, "CONNECT">>, <<<<"schema", "public">>, "USAGE">>}
SchemasMC == <<"public", "app">>
PrivOrderMC == <<"SELECT", "INSERT", "UPDATE", "PROCESS">>
TablesMC == {<<"table", "app", "t1">>}
NewTablesMC == {<<"table", "app", "t2">>}
=============================================================================
