----------------------------- MODULE ListFilters -----------------------------
(***************************************************************************)
(* The query parameters of a list and of a report: how the handlers judge  *)
(* them, the conditions of the SELECT they turn into, and the calendar in  *)
(* between.  Pure operators, no state.                                     *)
(*                                                                         *)
(* A parameter is a set: empty when it is absent or "", else the singleton *)
(* of its value.  A date is [year, month, day] as it was typed; whatever   *)
(* is not on the calendar, or no date at all, is not OnCalendar.           *)
(* An amount is an integer: what ParseFloat rejects stands with the        *)
(* negative ones (both are answered alike), and NaN and +Inf with Beyond,  *)
(* greater than every amount in the table, as they are to PostgreSQL.      *)
(***************************************************************************)
EXTENDS HarvestDomain

Beyond == 1000000

Operators == {"gt", "lt", "eq"}
SortOrders == {"asc", "desc"}
-----------------------------------------------------------------------------
(* Days: time.Parse("2006-01-02", _), time.AddDate, and DATE of PostgreSQL. *)

IsLeap(y) == y % 4 = 0 /\ (y % 100 # 0 \/ y % 400 = 0)

DaysIn(y, m) ==
  CASE m \in {4, 6, 9, 11} -> 30
    [] m = 2               -> IF IsLeap(y) THEN 29 ELSE 28
    [] OTHER               -> 31

\* The dates time.Parse accepts have a year of four digits.
LastYear == 9999

OnCalendar(t) ==
  /\ t.year \in 0..LastYear /\ t.month \in 1..12
  /\ t.day \in 1..DaysIn(t.year, t.month)

\* Days of the year before month m.
DaysBefore(y, m) ==
  <<0, 31, 59, 90, 120, 151, 181, 212, 243, 273, 304, 334>>[m]
    + (IF m > 2 /\ IsLeap(y) THEN 1 ELSE 0)

\* The number of a day, 1 for 1 January of year 1.  A day past the end of
\* its month counts on into the next one, as AddDate normalises it.
DayNumber(t) ==
  LET y == t.year - 1 IN
  365 * y + (y \div 4) - (y \div 100) + (y \div 400)
    + DaysBefore(t.year, t.month) + t.day

\* Mutant: a year is taken for 365 days.
In365Days(t) == DayNumber(t) + 365

\* from.AddDate(0, 12, 0): 29 February becomes 1 March.
InTwelveMonths(t) ==
  DayNumber([year |-> t.year + 1, month |-> t.month, day |-> t.day])

\* The days of the parameters that name one.
Days(param) == {DayNumber(t) : t \in {u \in param : OnCalendar(u)}}
-----------------------------------------------------------------------------
(* What is wrong with a query: one <<field, code>> pair each; {} accepts it. *)

Wrong(cond, field, code) == IF cond THEN {<<field, code>>} ELSE {}

Given(param) == param # {}
NotADay(param) == \E t \in param : ~OnCalendar(t)

\* Mutant: an operator without an amount is taken for no filter.
AmountFilterErrorsIfAmount(q) ==
  Wrong(Given(q.amount) /\ (~Given(q.operator) \/ q.operator \ Operators # {}),
        "amountOperator", "invalid_amount_operator")
    \cup Wrong(\E v \in q.amount : v < 0, "amount", "invalid_amount")

\* Operator and amount are optional together; given alone, the one missing
\* is as wrong as an invalid one.
AmountFilterErrors(q) ==
  IF ~Given(q.operator) /\ ~Given(q.amount) THEN {}
  ELSE Wrong(~Given(q.operator) \/ q.operator \ Operators # {},
             "amountOperator", "invalid_amount_operator")
         \cup Wrong(~Given(q.amount) \/ \E v \in q.amount : v < 0,
                    "amount", "invalid_amount")

\* Each end on its own, and their order if both are dates.
DateFilterErrors(q) ==
  UNION {Wrong(NotADay(q.from), "dateFrom", "invalid_date_from"),
         Wrong(NotADay(q.to), "dateTo", "invalid_date_to"),
         Wrong(\E f \in Days(q.from), t \in Days(q.to) : f > t,
               "dateTo", "invalid_date_range")}

ListErrors(q) ==
  UNION {Wrong(q.product \ Products # {}, "product", "invalid_product"),
         AmountFilterErrors(q),
         DateFilterErrors(q),
         Wrong(q.order \ SortOrders # {}, "sortOrder", "invalid_sort_order")}

\* Both ends of a report are required; their order and distance are looked
\* at once both are dates.
ReportErrors(q) ==
  LET ends == UNION {Wrong(~Given(q.from), "from", "from_required"),
                     Wrong(NotADay(q.from), "from", "from_invalid"),
                     Wrong(~Given(q.to), "to", "to_required"),
                     Wrong(NotADay(q.to), "to", "to_invalid")}
      after == \E f \in Days(q.from), t \in Days(q.to) : f > t
      tooLong == \E f \in q.from, t \in Days(q.to) : t > InTwelveMonths(f)
  IN
  IF ends # {} THEN ends
  ELSE IF after THEN {<<"to", "from_after_to">>}
  ELSE Wrong(tooLong, "to", "report_range_too_long")
-----------------------------------------------------------------------------
(* The WHERE of the SELECTs.                                               *)

\* Mutant: the last day is taken as an instant, its midnight.
NextDaySame(days) == days

\* AddDate(0, 0, 1): the exclusive bound.
NextDay(days) == {d + 1 : d \in days}

\* The conditions an accepted query turns into.  A report has its days only.
Filter(q) ==
  [product |-> q.product, operator |-> q.operator, amount |-> q.amount,
   from |-> Days(q.from), toExclusive |-> NextDay(Days(q.to))]

\* AmountOperator.SQL
Compares(operator, x, y) ==
  CASE operator = "gt" -> x > y
    [] operator = "lt" -> x < y
    [] operator = "eq" -> x = y

\* AND product = $2 AND amount <op> $3 AND harvested_at >= $4 AND
\* harvested_at < $5, each if it was asked for.
Selects(f, b) ==
  /\ \A p \in f.product : b.product = p
  /\ \A o \in f.operator, v \in f.amount : Compares(o, b.amount, v)
  /\ \A d \in f.from : DayNumber(b.date) >= d
  /\ \A d \in f.toExclusive : DayNumber(b.date) < d

\* The bounds travel as text, and PostgreSQL knows no year 0.
SqlTakes(f) == \A d \in f.from \cup f.toExclusive : d >= 1
-----------------------------------------------------------------------------
(* What the documents say a query asks for.                                *)

\* One date is the other or before it, read from the year down.
NotAfter(s, t) ==
  \/ s.year < t.year
  \/ s.year = t.year /\ s.month < t.month
  \/ s.year = t.year /\ s.month = t.month /\ s.day <= t.day

\* api/openapi.yaml:85-104: exact product, operator and amount, both days
\* inclusive.
AsksFor(q, b) ==
  /\ q.product \subseteq {b.product}
  /\ \A o \in q.operator, v \in q.amount :
       \/ o = "gt" /\ b.amount > v
       \/ o = "lt" /\ b.amount < v
       \/ o = "eq" /\ b.amount = v
  /\ \A t \in q.from : NotAfter(t, b.date)
  /\ \A t \in q.to : NotAfter(b.date, t)
=============================================================================
