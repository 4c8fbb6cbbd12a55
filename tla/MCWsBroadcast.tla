--------------------------- MODULE MCWsBroadcast ----------------------------
(***************************************************************************)
(* A small instance of WsBroadcast.                                        *)
(***************************************************************************)
EXTENDS WsBroadcast

CONSTANTS bandmap, dashboard, cw, ft8

TwoClients == {bandmap, dashboard}
TwoStates  == {cw, ft8}

=============================================================================
