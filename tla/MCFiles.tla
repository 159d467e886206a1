------------------------------ MODULE MCFiles ------------------------------
(***************************************************************************)
(* Three files in the root directory, listed page by page.                 *)
(***************************************************************************)
EXTENDS Files

ThreeFiles == <<"a", "bb", "cc">>
=============================================================================
