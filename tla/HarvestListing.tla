--------------------------- MODULE HarvestListing ---------------------------
(***************************************************************************)
(* The requests that read many records while others write them: the pages  *)
(* of one hive (List) and of all hives of a user (ListAll), and the report *)
(* of one hive over a range of dates (GetInternalReportData).              *)
(*                                                                         *)
(*   list     verify -> count -> page                                      *)
(*   listall  hives -> ... -> hives -> count -> page                       *)
(*   report   (count -> page) -> ... -> (count -> page)                    *)
(*                                                                         *)
(* count and page are two SELECTs, each on a snapshot of its own; the      *)
(* report and the list of owned hives page by OFFSET.  A query is judged   *)
(* and turned into a WHERE by ListFilters.  A listed record is its id.     *)
(* The report's totals are summed from the records it lists and left out.  *)
(***************************************************************************)
EXTENDS HarvestTable, ListFilters, SequencesExt

CONSTANTS
  Readers,      \* concurrent listing requests
  HarvestIds,   \* uuids, by their order: positive integers
  HiveIds,      \* hives, in the order hive-service lists them: integers
  Users,
  Owner,        \* hive-service's owner of each hive; never transferred
  Bodies,       \* of records, with made, the order of created_at
  Queries,      \* what clients ask, see IsQuery
  MaxLimit,     \* pagination.MaxLimit, the report's page; 100 in the code
  HivePage,     \* hives per page of ListOwned; 100 in the code
  Faults        \* the services that may fail

Rows == [hive : HiveIds, user : Users \cup {Null}, body : Bodies]

ASSUME ListingConstants ==
  /\ HarvestIds \subseteq Nat \ {0} /\ IsFiniteSet(HarvestIds)
  /\ HiveIds \subseteq Nat /\ IsFiniteSet(HiveIds)
  /\ MaxLimit \in Nat \ {0} /\ HivePage \in Nat \ {0}
  /\ Null \notin Users \cup HiveIds \cup Rows
  /\ Owner \in [HiveIds -> Users]
  /\ \A b \in Bodies : OnCalendar(b.date) /\ b.made \in Nat
  /\ Faults \subseteq {"hive", "db"}

\* What a client asks: the operation, its parameters as ListFilters has
\* them, and page and limit as the shared pagination hands them on.  A list
\* has one sort order, and a report is asked for by its two days alone.
IsQuery(q) ==
  /\ q.op \in {"list", "listall", "report"} /\ q.user \in Users
  /\ q.hive \in IF q.op = "listall" THEN {Null} ELSE HiveIds
  /\ q.page \in Nat \ {0} /\ q.limit \in Nat \ {0}
  /\ \A s, t \in q.order : s = t
  /\ q.op = "report" => q.product = {} /\ q.operator = {} /\ q.amount = {}

ASSUME ListingQueries == \A q \in Queries : IsQuery(q)

VARIABLES
  rows,   \* the harvests table
  alive,  \* hive-service: hives not deleted
  pc,     \* the next call of each request
  query,  \* what is asked, Null when idle
  scope,  \* hives the listing is over
  page,   \* the page asked for next, of hives or of the report
  total,  \* the last count
  all,    \* records the report has gathered
  reply,  \* the last answer
  quiet   \* history: nothing has changed since the request arrived

asking == <<pc, query, scope, page, total, all, reply, quiet>>
vars == <<rows, alive, asking>>
-----------------------------------------------------------------------------
(* The SQL of List.                                                        *)

\* Mutant: without hives there is no condition on the hive.
MatchesIfAny(t, hives, f) ==
  {id \in HarvestIds :
     /\ t[id] # Null
     /\ hives = {} \/ t[id].hive \in hives
     /\ Selects(f, t[id].body)}

\* WHERE hive_id = ANY($1) and the conditions of the filter
Matches(t, hives, f) ==
  {id \in HarvestIds :
     t[id] # Null /\ t[id].hive \in hives /\ Selects(f, t[id].body)}

Day(t, id) == DayNumber(t[id].body.date)

\* Mutant: ORDER BY without the id.
PrecedesLoosely(t, order, x, y) ==
  CASE order = {}       -> Day(t, x) >= Day(t, y)
    [] order = {"asc"}  -> t[x].body.made <= t[y].body.made
    [] order = {"desc"} -> t[x].body.made >= t[y].body.made

\* createdAtOrderClause: harvested_at DESC, id DESC or created_at, id in one
\* direction.
Precedes(t, order, x, y) ==
  CASE order = {} ->
         \/ Day(t, x) > Day(t, y)
         \/ Day(t, x) = Day(t, y) /\ x > y
    [] order = {"asc"} ->
         \/ t[x].body.made < t[y].body.made
         \/ t[x].body.made = t[y].body.made /\ x < y
    [] order = {"desc"} ->
         \/ t[x].body.made > t[y].body.made
         \/ t[x].body.made = t[y].body.made /\ x > y

\* ORDER BY: the orders the rows may come in; one, if Precedes is total.
Ordered(t, order, ids) ==
  {s \in SetToSeqs(ids) :
     \A i, j \in DOMAIN s : i < j => Precedes(t, order, s[i], s[j])}

\* LIMIT limit OFFSET (n - 1) * limit
PageOf(s, n, limit) ==
  SubSeq(s, (n - 1) * limit + 1, Min({n * limit, Len(s)}))

NoReply == [code |-> "none", items |-> <<>>, total |-> 0]

OwnedHives(u) == {h \in alive : Owner[h] = u}

\* hive-service's list of them, in its order.
HivesInOrder(u) ==
  {s \in SetToSeqs(OwnedHives(u)) : \A i, j \in DOMAIN s : i < j => s[i] < s[j]}

\* The hives a query is about, as hive-service now has them.
HivesAsked(q) == IF q.op = "listall" THEN OwnedHives(q.user) ELSE {q.hive}

Init ==
  /\ rows \in [HarvestIds -> {Null} \cup {Row(h, Owner[h], b) : h \in HiveIds, b \in Bodies}]
  /\ alive \in SUBSET HiveIds
  /\ pc = [r \in Readers |-> "idle"]
  /\ query = [r \in Readers |-> Null]
  /\ scope = [r \in Readers |-> {}]
  /\ page = [r \in Readers |-> 0]
  /\ total = [r \in Readers |-> 0]
  /\ all = [r \in Readers |-> <<>>]
  /\ reply = [r \in Readers |-> NoReply]
  /\ quiet = [r \in Readers |-> FALSE]
-----------------------------------------------------------------------------
(* The requests.                                                           *)

GoTo(r, step) == pc' = [pc EXCEPT ![r] = step]

Answer(r, code, items, count) ==
  /\ GoTo(r, "idle")
  /\ reply' = [reply EXCEPT ![r] = [code |-> code, items |-> items, total |-> count]]
  /\ scope' = [scope EXCEPT ![r] = {}]
  /\ page' = [page EXCEPT ![r] = 0]
  /\ total' = [total EXCEPT ![r] = 0]
  /\ all' = [all EXCEPT ![r] = <<>>]
  /\ quiet' = [quiet EXCEPT ![r] = FALSE]
  /\ query' = [query EXCEPT ![r] = Null]

Malformed(q) == (IF q.op = "report" THEN ReportErrors(q) ELSE ListErrors(q)) # {}

\* A request arrives; its parameters are judged before any call is made.  A
\* report is asked by another service and not checked against any user.
Ask(r, q) ==
  /\ pc[r] = "idle"
  /\ IF Malformed(q)
     THEN /\ reply' = [reply EXCEPT ![r] = [NoReply EXCEPT !.code = "validation_error"]]
          /\ UNCHANGED <<pc, query, scope, page, quiet>>
     ELSE /\ query' = [query EXCEPT ![r] = q]
          /\ reply' = [reply EXCEPT ![r] = NoReply]
          /\ GoTo(r, CASE q.op = "list"    -> "verify"
                       [] q.op = "listall" -> "hives"
                       [] q.op = "report"  -> "count")
          /\ scope' = [scope EXCEPT ![r] = IF q.op = "listall" THEN {} ELSE {q.hive}]
          /\ page' = [page EXCEPT ![r] = 1]
          /\ quiet' = [quiet EXCEPT ![r] = TRUE]
  /\ UNCHANGED <<rows, alive, total, all>>

Verify(r) ==
  /\ pc[r] = "verify"
  /\ IF query[r].hive \in OwnedHives(query[r].user)
     THEN GoTo(r, "count") /\ UNCHANGED <<query, scope, page, total, all, reply, quiet>>
     ELSE Answer(r, "hive_not_found", <<>>, 0)
  /\ UNCHANGED <<rows, alive>>

\* Mutant: the last page of hives is taken for one too many.
ListOwnedStopsEarly(r) ==
  /\ pc[r] = "hives"
  /\ \E owned \in HivesInOrder(query[r].user) :
       /\ scope' = [scope EXCEPT ![r] = @ \cup ToSet(PageOf(owned, page[r], HivePage))]
       /\ IF (page[r] + 1) * HivePage >= Len(owned)
          THEN GoTo(r, "count") /\ UNCHANGED page
          ELSE page' = [page EXCEPT ![r] = @ + 1] /\ UNCHANGED pc
  /\ UNCHANGED <<rows, alive, query, total, all, reply, quiet>>

\* One page of hive-service's list of the caller's hives; up to
\* totalPages, which every page reports anew.
ListOwned(r) ==
  /\ pc[r] = "hives"
  /\ \E owned \in HivesInOrder(query[r].user) :
       LET items == PageOf(owned, page[r], HivePage) IN
       /\ scope' = [scope EXCEPT ![r] = @ \cup ToSet(items)]
       /\ IF page[r] * HivePage >= Len(owned) \/ items = <<>>
          THEN GoTo(r, "count") /\ UNCHANGED page
          ELSE page' = [page EXCEPT ![r] = @ + 1] /\ UNCHANGED pc
  /\ UNCHANGED <<rows, alive, query, total, all, reply, quiet>>

Selected(r) == Matches(rows, scope[r], Filter(query[r]))

\* Mutant: the total is what remains from the page asked for on.
CountRemaining(r) ==
  /\ pc[r] = "count"
  /\ total' = [total EXCEPT ![r] =
                Cardinality(Selected(r)) - (query[r].page - 1) * query[r].limit]
  /\ GoTo(r, "page")
  /\ UNCHANGED <<rows, alive, query, scope, page, all, reply, quiet>>

Count(r) ==
  /\ pc[r] = "count" /\ SqlTakes(Filter(query[r]))
  /\ total' = [total EXCEPT ![r] = Cardinality(Selected(r))]
  /\ GoTo(r, "page")
  /\ UNCHANGED <<rows, alive, query, scope, page, all, reply, quiet>>

Page(r) ==
  /\ pc[r] = "page" /\ query[r].op # "report"
  /\ \E s \in Ordered(rows, query[r].order, Selected(r)) :
       Answer(r, "ok", PageOf(s, query[r].page, query[r].limit), total[r])
  /\ UNCHANGED <<rows, alive>>

\* Mutant: an empty page does not end the loop (page numbers are capped).
ReportPageUnlessAll(r) ==
  /\ pc[r] = "page" /\ query[r].op = "report"
  /\ \E s \in Ordered(rows, {}, Selected(r)) :
       LET gathered == all[r] \o PageOf(s, page[r], MaxLimit) IN
       \/ /\ Len(gathered) >= total[r]
          /\ Answer(r, "ok", gathered, Len(gathered))
       \/ /\ Len(gathered) < total[r]
          /\ all' = [all EXCEPT ![r] = gathered]
          /\ page' = [page EXCEPT ![r] = Min({@ + 1, Cardinality(HarvestIds) + 1})]
          /\ GoTo(r, "count")
          /\ UNCHANGED <<query, scope, total, reply, quiet>>
  /\ UNCHANGED <<rows, alive>>

\* The report is complete when it holds as many records as were counted last,
\* or when a page is empty.
ReportPage(r) ==
  /\ pc[r] = "page" /\ query[r].op = "report"
  /\ \E s \in Ordered(rows, {}, Selected(r)) :
       LET items == PageOf(s, page[r], MaxLimit)
           gathered == all[r] \o items
       IN
       \/ /\ Len(gathered) >= total[r] \/ items = <<>>
          /\ Answer(r, "ok", gathered, Len(gathered))
       \/ /\ Len(gathered) < total[r] /\ items # <<>>
          /\ all' = [all EXCEPT ![r] = gathered]
          /\ page' = [page EXCEPT ![r] = @ + 1]
          /\ GoTo(r, "count")
          /\ UNCHANGED <<query, scope, total, reply, quiet>>
  /\ UNCHANGED <<rows, alive>>

\* A call fails, or PostgreSQL refuses a bound it cannot read as a date.
CallFails(r) ==
  /\ \/ pc[r] \in {"verify", "hives"} /\ "hive" \in Faults
     \/ pc[r] \in {"count", "page"} /\ "db" \in Faults
     \/ pc[r] = "count" /\ ~SqlTakes(Filter(query[r]))
  /\ Answer(r, "internal_error", <<>>, 0)
  /\ UNCHANGED <<rows, alive>>

Work(r) ==
  Verify(r) \/ ListOwned(r) \/ Count(r) \/ Page(r) \/ ReportPage(r) \/ CallFails(r)
-----------------------------------------------------------------------------
(* The writers: the effects of HarvestService's requests on the table, and *)
(* hive-service deleting hives, external.  An id stands for the place of a *)
(* uuid among the others: a new record may take any place that is free.    *)

\* What a change of (rows, alive) does to open requests: it is remembered.
Noticed ==
  /\ UNCHANGED <<pc, query, scope, page, total, all, reply>>
  /\ quiet' = [r \in Readers |-> FALSE]

\* The hive was there when hive-service was asked, a call earlier.
Inserts(id, h, b) ==
  /\ rows[id] = Null
  /\ rows' = CreateRow(rows, id, Row(h, Owner[h], b))
  /\ UNCHANGED alive
  /\ Noticed

\* created_at is not among the columns an UPDATE sets.
Updates(id, b) ==
  /\ rows[id] # Null /\ b.made = rows[id].body.made /\ b # rows[id].body
  /\ rows' = UpdateRow(rows, rows[id].hive, id, b)
  /\ UNCHANGED alive
  /\ Noticed

Deletes(id) ==
  /\ rows[id] # Null
  /\ rows' = DeleteRows(rows, {id})
  /\ UNCHANGED alive
  /\ Noticed

HiveDies(h) ==
  /\ h \in alive
  /\ alive' = alive \ {h}
  /\ UNCHANGED rows
  /\ Noticed

Write ==
  \/ \E id \in HarvestIds, b \in Bodies : Updates(id, b) \/ \E h \in HiveIds : Inserts(id, h, b)
  \/ \E id \in HarvestIds : Deletes(id)
  \/ \E h \in HiveIds : HiveDies(h)

Next ==
  \/ \E r \in Readers : Work(r) \/ \E q \in Queries : Ask(r, q)
  \/ Write

Spec == Init /\ [][Next]_vars

\* Each call of a request ends (5 s for hive-service, the 30 s of the
\* request for PostgreSQL) and its goroutine runs on.  Writers are free.
FairSpec == Spec /\ \A r \in Readers : WF_vars(Work(r))
-----------------------------------------------------------------------------
(* Properties.                                                             *)

\* Every variable holds a value of its kind.
TypeOK ==
  /\ rows \in [HarvestIds -> Rows \cup {Null}]
  /\ alive \subseteq HiveIds
  /\ pc \in [Readers -> {"idle", "verify", "hives", "count", "page"}]
  /\ query \in [Readers -> Queries \cup {Null}]
  /\ \A r \in Readers : IF pc[r] = "idle" THEN query[r] = Null ELSE query[r] \in Queries
  /\ scope \in [Readers -> SUBSET HiveIds]
  /\ page \in [Readers -> Nat] /\ total \in [Readers -> Nat]
  /\ all \in [Readers -> Seq(HarvestIds)]
  /\ reply \in [Readers -> [code : {"none", "ok", "validation_error", "hive_not_found", "internal_error"},
                             items : Seq(HarvestIds), total : Nat]]
  /\ quiet \in [Readers -> BOOLEAN]

\* What the documents say of the order (openapi.yaml:203-205, 262-270): the latest
\* day first, or in a direction given the creation; the id breaks a tie that way.
ComesBefore(order, x, y) ==
  LET a == rows[x].body
      b == rows[y].body
      descends == IF order = {}
                  THEN NotAfter(b.date, a.date) /\ (NotAfter(a.date, b.date) => x > y)
                  ELSE a.made >= b.made /\ (a.made = b.made => x > y)
  IN  IF order = {"asc"} THEN ~descends ELSE descends

\* The records of ids that come before id in a listing of ids.
Rank(ids, order, id) == Cardinality({x \in ids : x # id /\ ComesBefore(order, x, id)})

\* items are the records of ids at ranks first + 1, first + 2, ... < last + 1.
Exactly(items, ids, order, first, last) ==
  /\ Len(items) = Cardinality({id \in ids : Rank(ids, order, id) \in first..(last - 1)})
  /\ \A k \in DOMAIN items : items[k] \in ids /\ Rank(ids, order, items[k]) = first + k - 1

\* r is answered with records by this step, and nothing has changed since it
\* arrived.
AnsweredUndisturbed(r) == pc[r] = "page" /\ quiet[r] /\ reply'[r].code = "ok"

\* The records a query asks for, by its documented meaning.
Wanted(q) ==
  {id \in HarvestIds :
     rows[id] # Null /\ rows[id].hive \in HivesAsked(q) /\ AsksFor(q, rows[id].body)}

\* A report nobody disturbs holds each record of its hive and its days, both
\* ends included, once and in order, however many pages it takes and also
\* where records share a day.
ReportExactWhenQuiet ==
  [][\A r \in Readers : LET q == query[r] IN
       AnsweredUndisturbed(r) /\ q.op = "report" =>
         Exactly(reply'[r].items, Wanted(q), {}, 0, Cardinality(Wanted(q)))]_vars

\* A page of a list nobody disturbs holds its share of the records of the
\* hive, or of all the caller's hives, that the filters ask for, in the order
\* asked for, and the right total.
PageExactWhenQuiet ==
  [][\A r \in Readers : LET q == query[r] IN
       AnsweredUndisturbed(r) /\ q.op # "report" =>
         /\ Exactly(reply'[r].items, Wanted(q), q.order, (q.page - 1) * q.limit, q.page * q.limit)
         /\ reply'[r].total = Cardinality(Wanted(q))]_vars

\* A list never shows a record of another user's hive, nor does the list of
\* a user without hives, whatever changed since the request arrived.
ListsOnlyOwn ==
  [][\A r \in Readers :
       pc[r] = "page" /\ query[r].op # "report" /\ reply'[r].code = "ok" =>
         \A id \in ToSet(reply'[r].items) :
           rows[id] # Null /\ Owner[rows[id].hive] = query[r].user]_vars

\* Every listing is answered, also when records vanish between a report's
\* count and its page and the numbers never add up.
ListingEnds == \A r \in Readers : pc[r] # "idle" ~> pc[r] = "idle"
=============================================================================
