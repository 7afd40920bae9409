------------------------- MODULE RequestValidation -------------------------
(***************************************************************************)
(* The judgement of what a client sends: the bodies of POST and PUT        *)
(* (HarvestDomain) against what the database accepts and what the          *)
(* documents say goes together, and the queries of lists and reports       *)
(* (ListFilters) against the days and records they are said to mean.  A    *)
(* request is decoded and judged.                                          *)
(***************************************************************************)
EXTENDS ListFilters

CONSTANTS
  Requested,       \* the bodies that decode as JSON
  ListQueries,     \* the queries of lists,
  ReportQueries,   \* and those of reports
  Stored           \* bodies that records may have

\* Of the fields only the amount is a number.
ASSUME RequestedAmounts == \A b \in Requested : b.amount \subseteq Int

\* Records have days, and a report is asked for by its two days alone; a
\* parameter has at most one value.
ASSUME StoredDates == \A b \in Stored : OnCalendar(b.date)
ASSUME ReportParameters ==
  \A q \in ReportQueries :
    /\ q.product = {} /\ q.operator = {} /\ q.amount = {}
    /\ \A s, t \in q.from : s = t
    /\ \A s, t \in q.to : s = t

VARIABLES kind, asked, fields, stage

Init ==
  /\ \/ kind = "body" /\ asked \in Requested
     \/ kind = "list" /\ asked \in ListQueries
     \/ kind = "report" /\ asked \in ReportQueries
  /\ fields = {}
  /\ stage = "decoded"

\* The field errors go to the client, or the request goes on to the service.
Judge ==
  /\ stage = "decoded"
  /\ fields' = CASE kind = "body"   -> Validate(asked)
                 [] kind = "list"   -> ListErrors(asked)
                 [] kind = "report" -> ReportErrors(asked)
  /\ stage' = IF fields' = {} THEN "accepted" ELSE "validation_error"
  /\ UNCHANGED <<kind, asked>>

vars == <<kind, asked, fields, stage>>
Spec == Init /\ [][Judge]_vars

Accepted(k) == kind = k /\ stage = "accepted"
-----------------------------------------------------------------------------
\* The CHECKs and NOT NULLs the harvests table was created with.
TableChecks(b) ==
  /\ b.product \in {"HONEY", "POLLEN", "PROPOLIS", "WAX"}
  /\ b.unit \in {"g", "kg", "l"}
  /\ b.amount # {} /\ \A v \in b.amount : v >= 0

\* harvested_at and its NOT NULL came later.
HasDate(b) == b.harvestedAt \notin {"", BadDate}

TableTakes(b) == TableChecks(b) /\ HasDate(b)

\* README.md:131: what each product accepts.
Documented ==
  {<<"HONEY", "kg">>, <<"HONEY", "l">>, <<"POLLEN", "g">>, <<"POLLEN", "kg">>,
   <<"PROPOLIS", "g">>, <<"WAX", "g">>}

\* An accepted body meets every CHECK of the table, so that the INSERT or
\* UPDATE cannot fail on it, and its product and unit go together, which no
\* CHECK would catch.
AcceptedIsStorable ==
  Accepted("body") => TableTakes(asked) /\ <<asked.product, asked.unit>> \in Documented

\* A rejected body names, once each, the fields that are wrong by
\* themselves, whatever else is wrong; "unit" is blamed for the combination
\* only if nothing is wrong with either part of it.  A date is wrong unless
\* it is a plain one, as requests_test.go:108 has it: openapi.yaml:479, which
\* asks for a date-time, is wrong of this code.
ErrorsNameTheirFields ==
  kind = "body" /\ stage = "validation_error" =>
    LET blamed == {e[1] : e \in fields}
        alone == {f \in {"product", "amount", "unit", "harvestedAt"} :
                    CASE f = "product"     -> asked.product \notin Products
                      [] f = "amount"      -> asked.amount = {} \/ \E v \in asked.amount : v < 0
                      [] f = "unit"        -> asked.unit \notin Units
                      [] f = "harvestedAt" -> asked.harvestedAt \in {"", DateTime, BadDate}}
    IN
    /\ \A e, f \in fields : e[1] = f[1] => e = f
    /\ alone \subseteq blamed
    /\ blamed \ alone # {} =>
         /\ blamed \ alone = {"unit"} /\ "product" \notin alone
         /\ <<asked.product, asked.unit>> \notin Documented

\* An accepted query selects the records it asks for and no others: no day
\* of either end is lost, at the end of a month, of a February or of a year,
\* and half a pair of amount parameters is not taken for no filter.
QueryIsReadAsAsked ==
  Accepted("list") \/ Accepted("report") =>
    /\ Given(asked.operator) = Given(asked.amount)
    /\ \A b \in Stored : Selects(Filter(asked), b) <=> AsksFor(asked, b)

\* The last day of a report from t: the same day a year later, 1 March for
\* a 29 February.
AYearLater(t) ==
  IF t.month = 2 /\ t.day = 29
  THEN [year |-> t.year + 1, month |-> 3, day |-> 1]
  ELSE [year |-> t.year + 1, month |-> t.month, day |-> t.day]

\* Of two dates exactly the periods of up to twelve months are accepted for
\* a report, however long the year between them is, and nothing but the
\* order and the distance of its days is held against it.
ReportSpansAYear ==
  kind = "report" /\ stage # "decoded" =>
    \A f \in asked.from, t \in asked.to :
      OnCalendar(f) /\ OnCalendar(t) =>
        (stage = "accepted" <=> NotAfter(f, t) /\ NotAfter(t, AYearLater(f)))
============================================================================
