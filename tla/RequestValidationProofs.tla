---------------------- MODULE RequestValidationProofs ----------------------
(***************************************************************************)
(* What validation promises, for every set of bodies and queries.          *)
(***************************************************************************)
EXTENDS RequestValidation, ListFiltersProofs, TLAPS

\* The four columns are checked each by its own field's errors.
LEMMA FieldsInOrder ==
  ASSUME NEW b, b.amount \subseteq Int, Validate(b) = {}
  PROVE  TableTakes(b)
<1>1. /\ ProductErrors(b) = {} /\ AmountErrors(b) = {}
      /\ UnitErrors(b) = {} /\ DateErrors(b) = {}
  BY DEF Validate
<1>2. b.product \in Products
  BY <1>1 DEF ProductErrors
<1>3. b.unit \in Units
  BY <1>1 DEF UnitErrors
<1>4. b.amount # {} /\ \A v \in b.amount : v >= 0
  <2>1. b.amount # {}
    BY <1>1 DEF AmountErrors
  <2>2. ~\E v \in b.amount : v < 0
    BY <1>1 DEF AmountErrors
  <2>3. \A v \in b.amount : v \in Int
    OBVIOUS
  <2> QED BY <2>1, <2>2, <2>3
<1>5. b.harvestedAt \notin {"", BadDate}
  BY <1>1 DEF DateErrors
<1> QED BY <1>2, <1>3, <1>4, <1>5 DEF TableTakes, TableChecks, HasDate, Products, Units

\* The map of units is the documented table, pair by pair.
LEMMA UnitsAsDocumented ==
  ASSUME NEW p, NEW u, ValidCombination(p, u)
  PROVE  <<p, u>> \in Documented
<1>1. p \in Products /\ u \in allowedUnits[p]
  BY DEF ValidCombination
<1>2. allowedUnits[p] = CASE p = "HONEY"    -> {"kg", "l"}
                          [] p = "POLLEN"   -> {"g", "kg"}
                          [] p = "PROPOLIS" -> {"g"}
                          [] p = "WAX"      -> {"g"}
  BY <1>1 DEF allowedUnits
<1>3. CASE p = "HONEY"    BY <1>1, <1>2, <1>3 DEF Documented
<1>4. CASE p = "POLLEN"   BY <1>1, <1>2, <1>4 DEF Documented
<1>5. CASE p = "PROPOLIS" BY <1>1, <1>2, <1>5 DEF Documented
<1>6. CASE p = "WAX"      BY <1>1, <1>2, <1>6 DEF Documented
<1> QED BY <1>1, <1>3, <1>4, <1>5, <1>6 DEF Products

\* A body without field errors has a unit that goes with its product.
LEMMA CombinationJudged ==
  ASSUME NEW b, Validate(b) = {}
  PROVE  <<b.product, b.unit>> \in Documented
<1>1. ProductErrors(b) = {} /\ UnitErrors(b) = {} /\ CombinationErrors(b) = {}
  BY DEF Validate
<1>2. ValidCombination(b.product, b.unit)
  BY <1>1 DEF CombinationErrors
<1> QED BY <1>2, UnitsAsDocumented

\* The stage of a request says how its judgement came out.
Judged ==
  /\ kind \in {"body", "list", "report"}
  /\ kind = "body" => asked \in Requested
  /\ kind = "report" => asked \in ReportQueries
  /\ stage \in {"decoded", "accepted", "validation_error"}
  /\ stage = "accepted" => CASE kind = "body"   -> Validate(asked) = {}
                             [] kind = "list"   -> ListErrors(asked) = {}
                             [] kind = "report" -> ReportErrors(asked) = {}
  /\ kind = "report" /\ stage = "validation_error" => ReportErrors(asked) # {}

\* An accepted request has no errors; a report that is refused has some.
LEMMA AlwaysJudged == Spec => []Judged
<1>1. Init => Judged
  BY DEF Init, Judged
<1>2. Judged /\ [Judge]_vars => Judged'
  <2> SUFFICES ASSUME Judged, [Judge]_vars PROVE Judged'
    OBVIOUS
  <2>1. CASE UNCHANGED vars
    BY <2>1 DEF vars, Judged
  <2>2. CASE Judge
    <3>1. CASE kind = "body"
      BY <2>2, <3>1 DEF Judge, Judged
    <3>2. CASE kind = "list"
      BY <2>2, <3>2 DEF Judge, Judged
    <3>3. CASE kind = "report"
      BY <2>2, <3>3 DEF Judge, Judged
    <3> QED BY <3>1, <3>2, <3>3 DEF Judged
  <2> QED BY <2>1, <2>2
<1> QED BY <1>1, <1>2, PTL DEF Spec

\* Of whatever bodies clients send, those accepted meet the table's CHECKs
\* and pair product and unit as documented.
THEOREM AcceptedAlwaysStorable == Spec => []AcceptedIsStorable
<1>1. Judged => AcceptedIsStorable
  BY RequestedAmounts, FieldsInOrder, CombinationJudged
     DEF Judged, Accepted, AcceptedIsStorable
<1> QED BY <1>1, AlwaysJudged, PTL

\* S holds one error, of this field, if there is something wrong; else none.
OneErrorIf(wrong, S, field) ==
  /\ ~wrong => S = {}
  /\ wrong => \E code : S = {<<field, code>>}

\* Such a set names its field only, once, and exactly if something is wrong.
LEMMA OneErrorNames ==
  ASSUME NEW wrong \in BOOLEAN, NEW S, NEW field, OneErrorIf(wrong, S, field)
  PROVE  /\ \A e \in S : e[1] = field /\ wrong
         /\ \A e, f \in S : e = f
         /\ wrong => \E e \in S : e[1] = field
<1>1. CASE ~wrong
  BY <1>1 DEF OneErrorIf
<1>2. CASE wrong
  <2>1. PICK code : S = {<<field, code>>}
    BY <1>2 DEF OneErrorIf
  <2> QED
    BY <1>2, <2>1
<1> QED
  BY <1>1, <1>2

\* Each field has one error at most, and has it exactly if it is wrong by
\* itself; the combination is an error of the unit and comes alone.
LEMMA FieldErrors ==
  ASSUME NEW b
  PROVE  /\ OneErrorIf(b.product \notin Products, ProductErrors(b), "product")
         /\ OneErrorIf(b.amount = {} \/ \E v \in b.amount : v < 0, AmountErrors(b), "amount")
         /\ OneErrorIf(b.unit \notin Units, UnitErrors(b), "unit")
         /\ OneErrorIf(b.harvestedAt \in {"", DateTime, BadDate}, DateErrors(b), "harvestedAt")
         /\ \A e \in CombinationErrors(b) :
              /\ e = <<"unit", "unit_invalid_for_product">>
              /\ b.product \in Products /\ b.unit \in Units
              /\ ~ValidCombination(b.product, b.unit)
<1>1. /\ b.product \in Products => ProductErrors(b) = {}
      /\ b.product \notin Products => \E code : ProductErrors(b) = {<<"product", code>>}
  <2>1. CASE b.product = ""
    BY <2>1 DEF ProductErrors, Products
  <2>2. CASE b.product \in Products
    BY <2>2 DEF ProductErrors, Products
  <2>3. CASE b.product # "" /\ b.product \notin Products
    BY <2>3 DEF ProductErrors
  <2> QED
    BY <2>1, <2>2, <2>3
<1>2. /\ ~(b.amount = {} \/ \E v \in b.amount : v < 0) => AmountErrors(b) = {}
      /\ b.amount = {} \/ (\E v \in b.amount : v < 0)
           => \E code : AmountErrors(b) = {<<"amount", code>>}
  <2>1. CASE b.amount = {}
    BY <2>1 DEF AmountErrors
  <2>2. CASE \E v \in b.amount : v < 0
    BY <2>2 DEF AmountErrors
  <2>3. CASE b.amount # {} /\ ~\E v \in b.amount : v < 0
    BY <2>3 DEF AmountErrors
  <2> QED
    BY <2>1, <2>2, <2>3
<1>3. /\ b.unit \in Units => UnitErrors(b) = {}
      /\ b.unit \notin Units => \E code : UnitErrors(b) = {<<"unit", code>>}
  <2>1. CASE b.unit = ""
    BY <2>1 DEF UnitErrors, Units
  <2>2. CASE b.unit \in Units
    BY <2>2 DEF UnitErrors, Units
  <2>3. CASE b.unit # "" /\ b.unit \notin Units
    BY <2>3 DEF UnitErrors
  <2> QED
    BY <2>1, <2>2, <2>3
<1>4. /\ b.harvestedAt \notin {"", DateTime, BadDate} => DateErrors(b) = {}
      /\ b.harvestedAt \in {"", DateTime, BadDate} => \E code : DateErrors(b) = {<<"harvestedAt", code>>}
  <2>1. CASE b.harvestedAt = ""
    BY <2>1 DEF DateErrors, DateTime, BadDate
  <2>2. CASE b.harvestedAt \in {DateTime, BadDate}
    BY <2>2 DEF DateErrors, DateTime, BadDate
  <2>3. CASE b.harvestedAt \notin {"", DateTime, BadDate}
    BY <2>3 DEF DateErrors
  <2> QED
    BY <2>1, <2>2, <2>3
<1>5. \A e \in CombinationErrors(b) :
        /\ e = <<"unit", "unit_invalid_for_product">>
        /\ b.product \in Products /\ b.unit \in Units
        /\ ~ValidCombination(b.product, b.unit)
  BY <1>1, <1>3 DEF CombinationErrors
<1> QED
  BY <1>1, <1>2, <1>3, <1>4, <1>5 DEF OneErrorIf

\* The documented table is the map of units, pair by pair.
LEMMA DocumentedUnits ==
  ASSUME NEW p \in Products, NEW u, <<p, u>> \in Documented
  PROVE  ValidCombination(p, u)
<1>1. allowedUnits[p] = CASE p = "HONEY"    -> {"kg", "l"}
                          [] p = "POLLEN"   -> {"g", "kg"}
                          [] p = "PROPOLIS" -> {"g"}
                          [] p = "WAX"      -> {"g"}
  BY DEF allowedUnits
<1>2. CASE p = "HONEY"    BY <1>1, <1>2 DEF Documented, ValidCombination
<1>3. CASE p = "POLLEN"   BY <1>1, <1>3 DEF Documented, ValidCombination
<1>4. CASE p = "PROPOLIS" BY <1>1, <1>4 DEF Documented, ValidCombination
<1>5. CASE p = "WAX"      BY <1>1, <1>5 DEF Documented, ValidCombination
<1> QED BY <1>2, <1>3, <1>4, <1>5 DEF Products

\* A client is told of every field that is wrong, once, and of the unit of a
\* pair only when its parts are right (requests.go: Validate).
THEOREM ErrorsAlwaysNameTheirFields == Spec => []ErrorsNameTheirFields
<1> DEFINE Told == kind = "body" /\ stage # "decoded" => fields = Validate(asked)
<1>1. Init => Told
  BY DEF Init
<1>2. Told /\ [Judge]_vars => Told'
  BY DEF Judge, vars
<1>3. Told => ErrorsNameTheirFields
  <2> DEFINE b == asked
             blamed == {e[1] : e \in fields}
             alone == {f \in {"product", "amount", "unit", "harvestedAt"} :
                         CASE f = "product"     -> b.product \notin Products
                           [] f = "amount"      -> b.amount = {} \/ \E v \in b.amount : v < 0
                           [] f = "unit"        -> b.unit \notin Units
                           [] f = "harvestedAt" -> b.harvestedAt \in {"", DateTime, BadDate}}
  <2> SUFFICES ASSUME fields = Validate(b)
               PROVE  /\ \A e, f \in fields : e[1] = f[1] => e = f
                      /\ alone \subseteq blamed
                      /\ blamed \ alone # {} =>
                           /\ blamed \ alone = {"unit"} /\ "product" \notin alone
                           /\ <<b.product, b.unit>> \notin Documented
    BY DEF ErrorsNameTheirFields
  <2>1. /\ "product" \in alone <=> b.product \notin Products
        /\ "amount" \in alone <=> (b.amount = {} \/ \E v \in b.amount : v < 0)
        /\ "unit" \in alone <=> b.unit \notin Units
        /\ "harvestedAt" \in alone <=> b.harvestedAt \in {"", DateTime, BadDate}
        /\ alone \subseteq {"product", "amount", "unit", "harvestedAt"}
    OBVIOUS
  <2> HIDE DEF alone
  <2>2. \A e \in fields : \/ e \in ProductErrors(b) \/ e \in AmountErrors(b)
                          \/ e \in UnitErrors(b) \/ e \in DateErrors(b)
                          \/ e \in CombinationErrors(b)
    BY DEF Validate
  <2>3. /\ \A e \in ProductErrors(b) : e \in fields /\ e[1] = "product" /\ "product" \in alone
        /\ \A e, f \in ProductErrors(b) : e = f
        /\ "product" \in alone => \E e \in fields : e[1] = "product"
    BY <2>1, FieldErrors, OneErrorNames DEF Validate
  <2>4. /\ \A e \in AmountErrors(b) : e \in fields /\ e[1] = "amount" /\ "amount" \in alone
        /\ \A e, f \in AmountErrors(b) : e = f
        /\ "amount" \in alone => \E e \in fields : e[1] = "amount"
    BY <2>1, FieldErrors, OneErrorNames DEF Validate
  <2>5. /\ \A e \in UnitErrors(b) : e \in fields /\ e[1] = "unit" /\ "unit" \in alone
        /\ \A e, f \in UnitErrors(b) : e = f
        /\ "unit" \in alone => \E e \in fields : e[1] = "unit"
    BY <2>1, FieldErrors, OneErrorNames DEF Validate
  <2>6. /\ \A e \in DateErrors(b) :
             e \in fields /\ e[1] = "harvestedAt" /\ "harvestedAt" \in alone
        /\ \A e, f \in DateErrors(b) : e = f
        /\ "harvestedAt" \in alone => \E e \in fields : e[1] = "harvestedAt"
    <3>1. OneErrorIf(b.harvestedAt \in {"", DateTime, BadDate}, DateErrors(b), "harvestedAt")
      BY FieldErrors, Zenon
    <3>2. /\ \A e \in DateErrors(b) : e[1] = "harvestedAt" /\ b.harvestedAt \in {"", DateTime, BadDate}
          /\ \A e, f \in DateErrors(b) : e = f
          /\ b.harvestedAt \in {"", DateTime, BadDate} => \E e \in DateErrors(b) : e[1] = "harvestedAt"
      <4> DEFINE wrong == b.harvestedAt \in {"", DateTime, BadDate}
      <4>1. wrong \in BOOLEAN
        OBVIOUS
      <4>2. OneErrorIf(wrong, DateErrors(b), "harvestedAt")
        BY <3>1
      <4> HIDE DEF wrong
      <4>3. /\ \A e \in DateErrors(b) : e[1] = "harvestedAt" /\ wrong
            /\ \A e, f \in DateErrors(b) : e = f
            /\ wrong => \E e \in DateErrors(b) : e[1] = "harvestedAt"
        BY <4>1, <4>2, OneErrorNames
      <4> QED
        BY <4>3 DEF wrong
    <3> QED
      BY <2>1, <3>2 DEF Validate
  <2>7. \A e \in CombinationErrors(b) :
          /\ e = <<"unit", "unit_invalid_for_product">>
          /\ b.product \in Products /\ b.unit \in Units
          /\ ~ValidCombination(b.product, b.unit)
    BY FieldErrors, Zenon
  <2>8. \A e, f \in fields : e[1] = f[1] => e = f
    <3>1. \A e \in fields :
            \/ e[1] = "product" /\ e \in ProductErrors(b)
            \/ e[1] = "amount" /\ e \in AmountErrors(b)
            \/ e[1] = "unit" /\ e \in UnitErrors(b) /\ b.unit \notin Units
            \/ /\ e[1] = "unit" /\ b.unit \in Units
               /\ e = <<"unit", "unit_invalid_for_product">>
            \/ e[1] = "harvestedAt" /\ e \in DateErrors(b)
      <4> SUFFICES ASSUME NEW e \in fields
                   PROVE  \/ e[1] = "product" /\ e \in ProductErrors(b)
                          \/ e[1] = "amount" /\ e \in AmountErrors(b)
                          \/ e[1] = "unit" /\ e \in UnitErrors(b) /\ b.unit \notin Units
                          \/ /\ e[1] = "unit" /\ b.unit \in Units
                             /\ e = <<"unit", "unit_invalid_for_product">>
                          \/ e[1] = "harvestedAt" /\ e \in DateErrors(b)
        OBVIOUS
      <4>1. CASE e \in ProductErrors(b)
        BY <2>3, <4>1
      <4>2. CASE e \in AmountErrors(b)
        BY <2>4, <4>2
      <4>3. CASE e \in UnitErrors(b)
        BY <2>1, <2>5, <4>3
      <4>4. CASE e \in DateErrors(b)
        BY <2>6, <4>4
      <4>5. CASE e \in CombinationErrors(b)
        BY <2>7, <4>5
      <4> QED
        BY <2>2, <4>1, <4>2, <4>3, <4>4, <4>5
    <3>2. /\ \A e, f \in ProductErrors(b) : e = f
          /\ \A e, f \in AmountErrors(b) : e = f
          /\ \A e, f \in UnitErrors(b) : e = f
          /\ \A e, f \in DateErrors(b) : e = f
      BY <2>3, <2>4, <2>5, <2>6
    <3> QED
      BY <3>1, <3>2
  <2>9. alone \subseteq blamed
    <3> SUFFICES ASSUME NEW f \in alone PROVE \E e \in fields : e[1] = f
      OBVIOUS
    <3> QED
      BY <2>1, <2>3, <2>4, <2>5, <2>6
  <2>10. ASSUME blamed \ alone # {}
         PROVE  /\ blamed \ alone = {"unit"} /\ "product" \notin alone
                /\ <<b.product, b.unit>> \notin Documented
    <3>1. \A f \in blamed \ alone : f = "unit" /\ CombinationErrors(b) # {}
      BY <2>2, <2>3, <2>4, <2>5, <2>6, <2>7
    <3>2. b.product \in Products /\ ~ValidCombination(b.product, b.unit)
      BY <2>7, <2>10, <3>1
    <3> QED
      BY <2>1, <2>10, <3>1, <3>2, DocumentedUnits
  <2> QED
    BY <2>8, <2>9, <2>10
<1> QED BY <1>1, <1>2, <1>3, PTL DEF Spec
-----------------------------------------------------------------------------
(* Queries.                                                                *)

\* Whatever days and amounts clients send, an accepted query selects exactly
\* the records it asks for.
THEOREM QueriesReadAsAsked == Spec => []QueryIsReadAsAsked
<1>1. Judged => QueryIsReadAsAsked
  <2> SUFFICES ASSUME Judged, Accepted("list") \/ Accepted("report")
               PROVE  /\ Given(asked.operator) = Given(asked.amount)
                      /\ \A b \in Stored : Selects(Filter(asked), b) <=> AsksFor(asked, b)
    BY DEF QueryIsReadAsAsked
  <2>1. CASE Accepted("list")
    <3>1. ListErrors(asked) = {}
      BY <2>1 DEF Judged, Accepted
    <3> QED BY <3>1, AcceptedListDays, SelectedAsAsked, StoredDates
  <2>2. CASE Accepted("report")
    <3>1. ReportErrors(asked) = {} /\ asked \in ReportQueries
      BY <2>2 DEF Judged, Accepted
    <3>2. asked.operator = {} /\ asked.amount = {}
      BY <3>1, ReportParameters
    <3> QED BY <3>1, <3>2, ReportEnds, SelectedAsAsked, StoredDates DEF Given
  <2> QED BY <2>1, <2>2
<1> QED BY <1>1, AlwaysJudged, PTL

\* Twelve months on is a year later, and no day between is miscounted.
LEMMA TwelveMonths ==
  ASSUME NEW f, OnCalendar(f)
  PROVE  /\ Proper(AYearLater(f))
         /\ InTwelveMonths(f) = DayNumber(AYearLater(f))
<1> DEFINE y == f.year + 1
<1>1. /\ f.year \in Int /\ f.month \in 1..12
      /\ f.day \in Int /\ 1 <= f.day /\ f.day <= DaysIn(f.year, f.month)
  BY CalendarIsProper DEF Proper
<1>2. CASE f.month = 2 /\ f.day = 29
  <2>1. IsLeap(f.year)
    BY <1>1, <1>2 DEF DaysIn
  <2>2. ~IsLeap(y)
    <3>1. f.year % 4 = 0
      BY <2>1 DEF IsLeap
    <3>2. y % 4 # 0
      BY <1>1, <3>1
    <3> QED BY <3>2 DEF IsLeap
  <2>3. DaysBefore(y, 2) + 29 = DaysBefore(y, 3) + 1 /\ DaysIn(y, 3) = 31
    BY <1>1, <2>2, MonthTable
  <2>4. AYearLater(f) = [year |-> y, month |-> 3, day |-> 1]
    BY <1>2 DEF AYearLater
  <2>5. YearStart(y) \in Int /\ DaysBefore(y, 2) \in Nat /\ DaysBefore(y, 3) \in Nat
    <3>1. y \in Int /\ 2 \in 1..12 /\ 3 \in 1..12
      BY <1>1
    <3>2. YearStart(y) \in Int
      BY <3>1 DEF YearStart
    <3> QED BY <3>1, <3>2, MonthsInOrder
  <2>6. /\ InTwelveMonths(f) = YearStart(y) + DaysBefore(y, 2) + 29
        /\ DayNumber(AYearLater(f)) = YearStart(y) + DaysBefore(y, 3) + 1
    BY <1>2, <2>4 DEF InTwelveMonths, DayNumber, YearStart
  <2> QED BY <1>1, <2>3, <2>4, <2>5, <2>6 DEF Proper
<1>3. CASE ~(f.month = 2 /\ f.day = 29)
  <2>1. AYearLater(f) = [year |-> y, month |-> f.month, day |-> f.day]
    BY <1>3 DEF AYearLater
  <2>2. f.day <= DaysIn(y, f.month)
    BY <1>1, <1>3 DEF DaysIn
  <2> QED BY <1>1, <2>1, <2>2 DEF InTwelveMonths, Proper
<1> QED BY <1>2, <1>3

\* For any two dates a client names, a report is accepted exactly if they are
\* in order and at most twelve months apart.
THEOREM ReportsSpanAYear == Spec => []ReportSpansAYear
<1>1. Judged => ReportSpansAYear
  <2> SUFFICES ASSUME Judged, kind = "report", stage # "decoded",
                      NEW f \in asked.from, NEW t \in asked.to,
                      OnCalendar(f), OnCalendar(t)
               PROVE  stage = "accepted" <=> NotAfter(f, t) /\ NotAfter(t, AYearLater(f))
    BY DEF ReportSpansAYear
  <2>1. stage = "accepted" <=> ReportErrors(asked) = {}
    BY DEF Judged
  <2>2. asked.from = {f} /\ asked.to = {t}
    BY ReportParameters DEF Judged
  <2>3. ReportErrors(asked) = {} <=>
          /\ ~\E a \in Days(asked.from), b \in Days(asked.to) : a > b
          /\ ~\E a \in asked.from, b \in Days(asked.to) : b > InTwelveMonths(a)
    BY <2>2, ReportEnds DEF Given
  <2>4. Days(asked.from) = {DayNumber(f)} /\ Days(asked.to) = {DayNumber(t)}
    BY <2>2 DEF Days
  <2>5. ReportErrors(asked) = {} <=>
          ~(DayNumber(f) > DayNumber(t)) /\ ~(DayNumber(t) > InTwelveMonths(f))
    BY <2>2, <2>3, <2>4
  <2>6. Proper(f) /\ Proper(t) /\ Proper(AYearLater(f))
    BY CalendarIsProper, TwelveMonths
  <2> QED BY <2>1, <2>5, <2>6, DaysInOrder, TwelveMonths
<1> QED BY <1>1, AlwaysJudged, PTL
=============================================================================
