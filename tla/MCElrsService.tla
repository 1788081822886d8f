---------------------------- MODULE MCElrsService ----------------------------
(* Two modules with parameters of the same names in another order, of another *)
(* count, and one name twice. *)
EXTENDS ElrsService, TLC
CONSTANTS Long, Short
MCNames == Long :> <<"Rate", "Power", "Bind", "Rate">> @@ Short :> <<"Power", "Rate">>
=============================================================================
