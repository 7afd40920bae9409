------------------------- MODULE MCSchemaMigrations -------------------------
(***************************************************************************)
(* Values for the constants of SchemaMigrations.                           *)
(***************************************************************************)
EXTENDS SchemaMigrations

CONSTANTS i1, i2, honey, wax

\* Mornings and evenings of two days.
FourInstants == 0..3
=============================================================================
