--------------------------- MODULE HarvestDomain ---------------------------
(***************************************************************************)
(* The values a harvest is made of and the validation a request body goes  *)
(* through before anything else happens (internal/domain/harvest and       *)
(* transport/http/harvest/requests.go).  Pure operators, no state.         *)
(*                                                                         *)
(* A decoded body is a record [product, amount, unit, harvestedAt].  The   *)
(* amount is a pointer: the empty set when the field is absent, else the   *)
(* singleton of its value; "" stands for an absent string, DateTime for    *)
(* every RFC 3339 date with a time, BadDate for every other string that is *)
(* no date: time.Parse("2006-01-02", _) rejects both.                      *)
(***************************************************************************)
EXTENDS Integers

DateTime == "2026-09-01T00:00:00Z"
BadDate == "not-a-date"

Products == {"HONEY", "POLLEN", "PROPOLIS", "WAX"}
Units == {"g", "kg", "l"}

allowedUnits ==
  [p \in Products |-> CASE p = "HONEY"    -> {"kg", "l"}
                        [] p = "POLLEN"   -> {"g", "kg"}
                        [] p = "PROPOLIS" -> {"g"}
                        [] p = "WAX"      -> {"g"}]

\* Mutant: the unit is known, for some product.
ValidUnitOnly(product, unit) == unit \in Units

\* A product outside the map has no allowed unit at all.
ValidCombination(product, unit) ==
  product \in Products /\ unit \in allowedUnits[product]

ProductErrors(b) ==
  CASE b.product = ""           -> {<<"product", "product_required">>}
    [] b.product \in Products   -> {}
    [] OTHER                    -> {<<"product", "product_invalid">>}

AmountErrors(b) ==
  CASE b.amount = {}               -> {<<"amount", "amount_required">>}
    [] \E v \in b.amount : v < 0   -> {<<"amount", "amount_negative">>}
    [] OTHER                       -> {}

UnitErrors(b) ==
  CASE b.unit = ""        -> {<<"unit", "unit_required">>}
    [] b.unit \in Units   -> {}
    [] OTHER              -> {<<"unit", "unit_invalid">>}

DateErrors(b) ==
  CASE b.harvestedAt = ""        -> {<<"harvestedAt", "harvested_at_required">>}
    [] b.harvestedAt \in {DateTime, BadDate}
                                 -> {<<"harvestedAt", "harvested_at_invalid">>}
    [] OTHER                     -> {}

\* Mutant: the combination is looked at as soon as the product is known.
CombinationErrorsAlways(b) ==
  IF ProductErrors(b) = {} /\ ~ValidCombination(b.product, b.unit)
  THEN {<<"unit", "unit_invalid_for_product">>}
  ELSE {}

\* The combination is looked at only when product and unit are each valid.
CombinationErrors(b) ==
  IF /\ ProductErrors(b) = {} /\ UnitErrors(b) = {}
     /\ ~ValidCombination(b.product, b.unit)
  THEN {<<"unit", "unit_invalid_for_product">>}
  ELSE {}

\* The field errors of a body, one <<field, code>> pair each; {} accepts it.
Validate(b) ==
  UNION {ProductErrors(b), AmountErrors(b), UnitErrors(b), DateErrors(b),
         CombinationErrors(b)}
============================================================================
