------------------------------ MODULE MCEndToEnd ------------------------------
(***************************************************************************)
(* EndToEnd, and the seeding below it, on small instances.                 *)
(***************************************************************************)
EXTENDS EndToEnd

TwoKeys == <<"wk_a", "wk_b">>
TwoOwners == <<"owner_a", "owner_b">>
=============================================================================
