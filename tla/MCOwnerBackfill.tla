-------------------------- MODULE MCOwnerBackfill --------------------------
(***************************************************************************)
(* Values for the constants of OwnerBackfill.                              *)
(***************************************************************************)
EXTENDS OwnerBackfill, TLC

CONSTANTS j1, anna, ben, h1, h2

TwoHiveOwners == (h1 :> anna) @@ (h2 :> ben)
ThreeIds == 1..3
=============================================================================
