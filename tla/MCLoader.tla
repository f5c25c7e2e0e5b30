------------------------------ MODULE MCLoader ------------------------------
(* A value for a constant of Loader: two of the four categories.           *)
EXTENDS Loader

MCCategories == <<"process", "network">>
=============================================================================
