-------------------------- MODULE MCClientManager --------------------------
(* A client manager with three endpoints. *)
EXTENDS ClientManager

ThreeEndpoints == <<"a", "b", "c">>
=============================================================================
