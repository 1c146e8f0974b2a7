----------------------------- MODULE MCRequests -----------------------------
(* An instance of Requests for TLC.                                          *)
EXTENDS Requests, TLC

CONSTANTS c1, c2

MCRoutes == {<<"WEB">>, <<"API", "WEB">>}
=============================================================================
