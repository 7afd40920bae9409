------------------------ MODULE MCRequestValidation ------------------------
(***************************************************************************)
(* The requests that RequestValidation is checked on: every product and    *)
(* unit there is, one that is not and none, amounts around zero, and dates *)
(* around the ends of months, Februaries, years and the calendar.          *)
(***************************************************************************)
EXTENDS RequestValidation

AllBodies ==
  [product : Products \cup {"", "MEAD"},
   amount : {{}, {-1}, {0}, {1}},
   unit : Units \cup {"", "lb"},
   harvestedAt : {"", DateTime, BadDate, "2026-09-01"}]

Date(y, m, d) == [year |-> y, month |-> m, day |-> d]

\* The first and last days of months, years and of the calendar; 2024 and
\* 2000 have a 29 February, 2023, 2025 and 1900 do not.
EdgeDays ==
  {Date(y, m, d) : y \in {1900, 2000, 2023, 2024, 2025}, m \in {1, 2, 3, 12}, d \in {1, 28, 29, 30, 31}}
    \cup {Date(9999, 12, 31), Date(0, 12, 31), Date(1, 1, 1), Date(0, 0, 0)}

\* A few of them where both ends vary with all the other parameters.
FewDays ==
  {Date(2024, 2, 28), Date(2024, 2, 29), Date(2024, 3, 1), Date(2023, 2, 29), Date(2023, 12, 31)}

Optional(values) == {{}} \cup {{v} : v \in values}

Parameters(product, operator, amount, days, order) ==
  [product : product, operator : operator, amount : amount,
   from : Optional(days), to : Optional(days), order : order]

AllLists ==
  Parameters(Optional({"HONEY", "MEAD"}), Optional({"gt", "lt", "eq", "ge"}),
             Optional({-1, 0, 2, Beyond}), FewDays, Optional({"asc", "up"}))
    \cup Parameters({{}}, {{}}, {{}}, EdgeDays, {{}})

AllReports == Parameters({{}}, {{}}, {{}}, EdgeDays, {{}})

EdgeRecords ==
  {[product |-> "HONEY", amount |-> a, date |-> d] :
     a \in {0, 2, 3}, d \in {t \in FewDays : OnCalendar(t)}}
    \cup {[product |-> "WAX", amount |-> 0, date |-> d] : d \in {t \in EdgeDays : OnCalendar(t)}}
============================================================================
