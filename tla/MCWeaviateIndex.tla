--------------------------- MODULE MCWeaviateIndex ---------------------------
(***************************************************************************)
(* WeaviateIndex on small instances.                                       *)
(***************************************************************************)
EXTENDS WeaviateIndex

A == <<"t", "-", "a">>
B == <<"t", "-", "b">>
C == <<"t", "-", "c">>

\* Two known tenants and one nobody bootstraps.
ThreeTenants == {A, B, C}
TwoTenants == {A, B}

\* Two ids that differ in a hyphen and an underscore only.
LikeTenants == {A, <<"t", "_", "a">>}
=============================================================================
