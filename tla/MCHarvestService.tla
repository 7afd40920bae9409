-------------------------- MODULE MCHarvestService --------------------------
(***************************************************************************)
(* Values for the constants of HarvestService.                             *)
(***************************************************************************)
EXTENDS HarvestService, TLC

CONSTANTS r1, r2, anna, ben, h1, h2, i1, i2, i3

D == INSTANCE HarvestDomain

Body(product, unit, amount) ==
  [product |-> product, amount |-> amount, unit |-> unit,
   harvestedAt |-> "2026-09-01"]

\* Two bodies that pass, and one whose product and unit are each known but
\* do not go together.
Honey == Body("HONEY", "kg", {5})
Pollen == Body("POLLEN", "g", {0})
LitersOfWax == Body("WAX", "l", {1})

OneBody == {Honey}
TwoBodies == {Honey, Pollen}
MixedBodies == {Honey, LitersOfWax}
Accepted(bodies) == {b \in bodies : D!Validate(b) = {}}
OneValid == Accepted(OneBody)
TwoValid == Accepted(TwoBodies)
MixedValid == Accepted(MixedBodies)

\* anna owns the first hive; a second hive is ben's.
OneHiveOwner == [h \in {h1} |-> anna]
TwoHiveOwners == (h1 :> anna) @@ (h2 :> ben)

RequestSymmetry == Permutations(Requests)
=============================================================================
