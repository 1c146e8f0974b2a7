---------------------------- MODULE MCSqlQuery ----------------------------
(* An instance of SqlQuery for TLC.                                        *)
EXTENDS SqlQuery

MCConds == <<"c1", "c2", "c3", "c4", "c5", "c6", "c7">>
MCPlain == {<<"g">>, <<"g", "h">>}
MCSelected == {<<"g", "h">>}
MCTables == {Table, FullTable}
MCOwn == <<"x", "y">>
=============================================================================
