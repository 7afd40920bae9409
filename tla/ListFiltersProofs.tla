-------------------------- MODULE ListFiltersProofs --------------------------
(***************************************************************************)
(* That day numbers order dates as the calendar does, and that the WHERE   *)
(* of an accepted query selects what the documents say the query asks for. *)
(***************************************************************************)
EXTENDS ListFilters, TLAPS

(* The calendar.                                                           *)

\* The day number of the last day of the year before y.
YearStart(y) ==
  365 * (y - 1) + ((y - 1) \div 4) - ((y - 1) \div 100) + ((y - 1) \div 400)

\* A year has 365 days, and one more if it is a leap year.
LEMMA YearLength ==
  ASSUME NEW y \in Int
  PROVE  YearStart(y + 1) = YearStart(y) + 365 + (IF IsLeap(y) THEN 1 ELSE 0)
<1>1. (y \div 4) - ((y - 1) \div 4) = IF y % 4 = 0 THEN 1 ELSE 0
  OBVIOUS
<1>2. (y \div 100) - ((y - 1) \div 100) = IF y % 100 = 0 THEN 1 ELSE 0
  OBVIOUS
<1>3. (y \div 400) - ((y - 1) \div 400) = IF y % 400 = 0 THEN 1 ELSE 0
  OBVIOUS
<1>4. /\ y % 400 = 0 => y % 100 = 0
      /\ y % 100 = 0 => y % 4 = 0
  OBVIOUS
<1> QED BY <1>1, <1>2, <1>3, <1>4 DEF YearStart, IsLeap

\* Years do not overlap.
LEMMA YearsInOrder ==
  ASSUME NEW x \in Int, NEW y \in Int, x <= y
  PROVE  YearStart(x) <= YearStart(y)
<1>1. (x - 1) \div 4 <= (y - 1) \div 4
  OBVIOUS
<1>2. ((y - 1) \div 100) - ((x - 1) \div 100) <= y - x
  OBVIOUS
<1>3. (x - 1) \div 400 <= (y - 1) \div 400
  OBVIOUS
<1> QED BY <1>1, <1>2, <1>3 DEF YearStart

\* Where a month starts within its year.
LEMMA MonthTable ==
  ASSUME NEW y \in Int, NEW m \in 1..12
  PROVE  LET leap == IF IsLeap(y) THEN 1 ELSE 0 IN
         /\ m = 1  => DaysBefore(y, m) = 0          /\ DaysIn(y, m) = 31
         /\ m = 2  => DaysBefore(y, m) = 31         /\ DaysIn(y, m) = 28 + leap
         /\ m = 3  => DaysBefore(y, m) = 59 + leap  /\ DaysIn(y, m) = 31
         /\ m = 4  => DaysBefore(y, m) = 90 + leap  /\ DaysIn(y, m) = 30
         /\ m = 5  => DaysBefore(y, m) = 120 + leap /\ DaysIn(y, m) = 31
         /\ m = 6  => DaysBefore(y, m) = 151 + leap /\ DaysIn(y, m) = 30
         /\ m = 7  => DaysBefore(y, m) = 181 + leap /\ DaysIn(y, m) = 31
         /\ m = 8  => DaysBefore(y, m) = 212 + leap /\ DaysIn(y, m) = 31
         /\ m = 9  => DaysBefore(y, m) = 243 + leap /\ DaysIn(y, m) = 30
         /\ m = 10 => DaysBefore(y, m) = 273 + leap /\ DaysIn(y, m) = 31
         /\ m = 11 => DaysBefore(y, m) = 304 + leap /\ DaysIn(y, m) = 30
         /\ m = 12 => DaysBefore(y, m) = 334 + leap /\ DaysIn(y, m) = 31
BY DEF DaysBefore, DaysIn

\* Months of a year do not overlap, and lie within it.
LEMMA MonthsInOrder ==
  ASSUME NEW y \in Int, NEW m \in 1..12
  PROVE  /\ DaysBefore(y, m) \in Nat /\ DaysIn(y, m) \in Nat
         /\ DaysBefore(y, m) + DaysIn(y, m) <= 365 + (IF IsLeap(y) THEN 1 ELSE 0)
         /\ \A n \in 1..12 : m < n => DaysBefore(y, m) + DaysIn(y, m) <= DaysBefore(y, n)
<1>1. /\ DaysBefore(y, m) \in Nat /\ DaysIn(y, m) \in Nat
      /\ DaysBefore(y, m) + DaysIn(y, m) <= 365 + (IF IsLeap(y) THEN 1 ELSE 0)
  BY MonthTable
<1>2. ASSUME NEW n \in 1..12, m < n
      PROVE  DaysBefore(y, m) + DaysIn(y, m) <= DaysBefore(y, n)
  BY <1>2, MonthTable
<1> QED BY <1>1, <1>2

\* A date of any year.
Proper(t) ==
  /\ t.year \in Int /\ t.month \in 1..12
  /\ t.day \in Int /\ 1 <= t.day /\ t.day <= DaysIn(t.year, t.month)

\* What the handlers take for a date is one.
LEMMA CalendarIsProper ==
  ASSUME NEW t, OnCalendar(t)
  PROVE  Proper(t)
<1>1. t.year \in Int
  <2>1. t.year \in 0..LastYear
    BY SMT DEF OnCalendar
  <2>2. LastYear \in Int
    BY DEF LastYear
  <2> QED BY <2>1, <2>2
<1>2. t.month \in 1..12
  BY SMT DEF OnCalendar
<1>3. t.day \in 1..DaysIn(t.year, t.month)
  BY SMT DEF OnCalendar
<1>4. DaysIn(t.year, t.month) \in Nat
  BY <1>1, <1>2, MonthsInOrder
<1> QED BY <1>1, <1>2, <1>3, <1>4 DEF Proper

\* Day numbers order the dates as the calendar does.
LEMMA DaysInOrder ==
  ASSUME NEW s, NEW t, Proper(s), Proper(t)
  PROVE  /\ DayNumber(s) \in Int /\ DayNumber(t) \in Int
         /\ DayNumber(s) <= DayNumber(t) <=> NotAfter(s, t)
<1>1. /\ s.year \in Int /\ s.month \in 1..12
      /\ t.year \in Int /\ t.month \in 1..12
  BY DEF Proper
<1>2. /\ DayNumber(s) = YearStart(s.year) + DaysBefore(s.year, s.month) + s.day
      /\ DayNumber(t) = YearStart(t.year) + DaysBefore(t.year, t.month) + t.day
  BY DEF DayNumber, YearStart
<1>3. /\ YearStart(s.year) \in Int /\ YearStart(t.year) \in Int
      /\ YearStart(s.year + 1) = YearStart(s.year) + 365 + (IF IsLeap(s.year) THEN 1 ELSE 0)
      /\ YearStart(t.year + 1) = YearStart(t.year) + 365 + (IF IsLeap(t.year) THEN 1 ELSE 0)
  <2>1. YearStart(s.year) \in Int /\ YearStart(t.year) \in Int
    BY <1>1 DEF YearStart
  <2> QED BY <1>1, <2>1, YearLength
<1>4. /\ DaysBefore(s.year, s.month) \in Nat /\ DaysIn(s.year, s.month) \in Nat
      /\ DaysBefore(t.year, t.month) \in Nat /\ DaysIn(t.year, t.month) \in Nat
  BY <1>1, MonthsInOrder
<1>5. /\ s.day \in Nat /\ s.day >= 1 /\ s.day <= DaysIn(s.year, s.month)
      /\ t.day \in Nat /\ t.day >= 1 /\ t.day <= DaysIn(t.year, t.month)
  BY DEF Proper
<1>6. CASE s.year < t.year
  <2>1. YearStart(s.year + 1) <= YearStart(t.year)
    BY <1>1, <1>6, YearsInOrder
  <2>2. DaysBefore(s.year, s.month) + DaysIn(s.year, s.month) <= 365 + (IF IsLeap(s.year) THEN 1 ELSE 0)
    BY <1>1, MonthsInOrder
  <2>3. DayNumber(s) < DayNumber(t)
    BY <1>1, <1>2, <1>3, <1>4, <1>5, <2>1, <2>2
  <2> QED BY <1>1, <1>2, <1>3, <1>4, <1>5, <1>6, <2>3 DEF NotAfter
<1>7. CASE t.year < s.year
  <2>1. YearStart(t.year + 1) <= YearStart(s.year)
    BY <1>1, <1>7, YearsInOrder
  <2>2. DaysBefore(t.year, t.month) + DaysIn(t.year, t.month) <= 365 + (IF IsLeap(t.year) THEN 1 ELSE 0)
    BY <1>1, MonthsInOrder
  <2>3. DayNumber(t) < DayNumber(s)
    BY <1>1, <1>2, <1>3, <1>4, <1>5, <2>1, <2>2
  <2> QED BY <1>1, <1>2, <1>3, <1>4, <1>5, <1>7, <2>3 DEF NotAfter
<1>8. CASE s.year = t.year
  <2>1. /\ s.month < t.month => DaysBefore(s.year, s.month) + DaysIn(s.year, s.month)
                                  <= DaysBefore(s.year, t.month)
        /\ t.month < s.month => DaysBefore(t.year, t.month) + DaysIn(t.year, t.month)
                                  <= DaysBefore(t.year, s.month)
    BY <1>1, MonthsInOrder
  <2> QED BY <1>1, <1>2, <1>3, <1>4, <1>5, <1>8, <2>1 DEF NotAfter
<1> QED BY <1>1, <1>2, <1>3, <1>4, <1>5, <1>6, <1>7, <1>8

\* Between the first day and the day after the last are the days from the
\* first to the last, both included.
LEMMA BoundsAreInclusive ==
  ASSUME NEW b, OnCalendar(b.date), NEW from, NEW to,
         \A t \in from \cup to : OnCalendar(t)
  PROVE  /\ (\A d \in Days(from) : DayNumber(b.date) >= d)
              <=> \A t \in from : NotAfter(t, b.date)
         /\ (\A d \in NextDay(Days(to)) : DayNumber(b.date) < d)
              <=> \A t \in to : NotAfter(b.date, t)
<1>1. /\ Days(from) = {DayNumber(t) : t \in from}
      /\ Days(to) = {DayNumber(t) : t \in to}
  BY DEF Days
<1>2. \A t \in from : DayNumber(b.date) >= DayNumber(t) <=> NotAfter(t, b.date)
  BY DaysInOrder, CalendarIsProper
<1>3. \A t \in to : DayNumber(b.date) < DayNumber(t) + 1 <=> NotAfter(b.date, t)
  BY DaysInOrder, CalendarIsProper
<1>4. NextDay(Days(to)) = {DayNumber(t) + 1 : t \in to}
  BY <1>1 DEF NextDay
<1> QED BY <1>1, <1>2, <1>3, <1>4

\* In an accepted list every day is on the calendar, and the parameters of
\* the amount come as a pair.
LEMMA AcceptedListDays ==
  ASSUME NEW q, ListErrors(q) = {}
  PROVE  /\ \A t \in q.from \cup q.to : OnCalendar(t)
         /\ Given(q.operator) = Given(q.amount)
         /\ q.operator \subseteq Operators
<1>1. /\ DateFilterErrors(q) = {} /\ AmountFilterErrors(q) = {}
  BY DEF ListErrors
<1>2. /\ Wrong(NotADay(q.from), "dateFrom", "invalid_date_from") = {}
      /\ Wrong(NotADay(q.to), "dateTo", "invalid_date_to") = {}
  BY <1>1 DEF DateFilterErrors
<1>3. ~NotADay(q.from) /\ ~NotADay(q.to)
  BY <1>2 DEF Wrong
<1>4. Given(q.operator) = Given(q.amount) /\ q.operator \subseteq Operators
  BY <1>1 DEF AmountFilterErrors, Wrong, Given
<1> QED BY <1>3, <1>4 DEF NotADay

\* A report over two days is judged by their order and distance alone.
LEMMA ReportEnds ==
  ASSUME NEW q
  PROVE  /\ ReportErrors(q) = {} => \A t \in q.from \cup q.to : OnCalendar(t)
         /\ (\A t \in q.from \cup q.to : OnCalendar(t)) /\ Given(q.from) /\ Given(q.to)
              => (ReportErrors(q) = {} <=>
                    /\ ~\E f \in Days(q.from), t \in Days(q.to) : f > t
                    /\ ~\E f \in q.from, t \in Days(q.to) : t > InTwelveMonths(f))
<1> DEFINE ends == UNION {Wrong(~Given(q.from), "from", "from_required"),
                     Wrong(NotADay(q.from), "from", "from_invalid"),
                     Wrong(~Given(q.to), "to", "to_required"),
                     Wrong(NotADay(q.to), "to", "to_invalid")}
<1>1. ends = {} <=> /\ Given(q.from) /\ ~NotADay(q.from)
                    /\ Given(q.to) /\ ~NotADay(q.to)
  BY DEF Wrong
<1>2. ReportErrors(q) = {} => ends = {}
  BY DEF ReportErrors
<1>3. ends = {} => (ReportErrors(q) = {} <=>
                    /\ ~\E f \in Days(q.from), t \in Days(q.to) : f > t
                    /\ ~\E f \in q.from, t \in Days(q.to) : t > InTwelveMonths(f))
  BY DEF ReportErrors, Wrong
<1> HIDE DEF ends
<1> QED BY <1>1, <1>2, <1>3 DEF NotADay

\* The SQL of the operators is the documented comparison.
LEMMA AmountsAsDocumented ==
  ASSUME NEW q, q.operator \subseteq Operators, NEW x
  PROVE  (\A o \in q.operator, v \in q.amount : Compares(o, x, v))
           <=> \A o \in q.operator, v \in q.amount :
                 \/ o = "gt" /\ x > v
                 \/ o = "lt" /\ x < v
                 \/ o = "eq" /\ x = v
<1>1. ASSUME NEW o \in Operators, NEW v
      PROVE  Compares(o, x, v) <=> \/ o = "gt" /\ x > v
                                   \/ o = "lt" /\ x < v
                                   \/ o = "eq" /\ x = v
  BY DEF Compares, Operators
<1> QED BY <1>1

\* An accepted query, of a list or a report, selects what it asks for.
LEMMA SelectedAsAsked ==
  ASSUME NEW q, NEW b, OnCalendar(b.date),
         \A t \in q.from \cup q.to : OnCalendar(t),
         q.operator \subseteq Operators
  PROVE  Selects(Filter(q), b) <=> AsksFor(q, b)
<1>1. /\ (\A d \in Days(q.from) : DayNumber(b.date) >= d)
           <=> \A t \in q.from : NotAfter(t, b.date)
      /\ (\A d \in NextDay(Days(q.to)) : DayNumber(b.date) < d)
           <=> \A t \in q.to : NotAfter(b.date, t)
  BY BoundsAreInclusive
<1>2. Selects(Filter(q), b) <=>
        /\ \A p \in q.product : b.product = p
        /\ \A o \in q.operator, v \in q.amount : Compares(o, b.amount, v)
        /\ \A d \in Days(q.from) : DayNumber(b.date) >= d
        /\ \A d \in NextDay(Days(q.to)) : DayNumber(b.date) < d
  BY DEF Selects, Filter
<1>3. (\A p \in q.product : b.product = p) <=> q.product \subseteq {b.product}
  OBVIOUS
<1> QED BY <1>1, <1>2, <1>3, AmountsAsDocumented DEF AsksFor
=============================================================================
