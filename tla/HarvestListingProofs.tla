------------------------ MODULE HarvestListingProofs ------------------------
(***************************************************************************)
(* Types of the listings, that lists show the caller's records only, and   *)
(* that pages and reports are exact while nothing changes, for any tables, *)
(* hives, pages and writers.                                               *)
(***************************************************************************)
EXTENDS HarvestListing, ListFiltersProofs, SequenceTheorems, FiniteSetTheorems, TLAPS

\* The smaller of two numbers is one of them.
LEMMA MinOfTwo ==
  ASSUME NEW x \in Int, NEW y \in Int
  PROVE  Min({x, y}) \in {x, y} /\ Min({x, y}) <= x /\ Min({x, y}) <= y
<1>1. \E z \in {x, y} : \A u \in {x, y} : z <= u
  <2>1. CASE x <= y
    BY <2>1
  <2>2. CASE y <= x
    BY <2>2
  <2> QED BY <2>1, <2>2
<1>2. Min({x, y}) \in {x, y} /\ \A u \in {x, y} : Min({x, y}) <= u
  BY <1>1 DEF Min
<1> QED BY <1>2

\* A page of a listing is a sequence of its items.
LEMMA PageOfItems ==
  ASSUME NEW S, NEW s \in Seq(S), NEW n \in Nat \ {0}, NEW limit \in Nat \ {0}
  PROVE  PageOf(s, n, limit) \in Seq(S)
<1> DEFINE first == (n - 1) * limit + 1
           last == Min({n * limit, Len(s)})
<1>1. first \in Int /\ first >= 1
  <2>1. (n - 1) \in Nat /\ limit \in Nat
    OBVIOUS
  <2>2. (n - 1) * limit \in Nat
    BY <2>1
  <2> QED BY <2>2
<1>2. last \in Int /\ last <= Len(s)
  <2>1. n * limit \in Int /\ Len(s) \in Int
    OBVIOUS
  <2> QED BY <2>1, MinOfTwo
<1> HIDE DEF first, last
<1>3. \A i \in first..last : s[i] \in S
  BY <1>1, <1>2
<1>4. SubSeq(s, first, last) \in Seq(S)
  BY <1>1, <1>2, <1>3, SubSeqProperties
<1> QED BY <1>4 DEF PageOf, first, last

\* The orders of a set are sequences of its members.
LEMMA OrdersAreSequences ==
  ASSUME NEW S, NEW s \in SetToSeqs(S), IsFiniteSet(S)
  PROVE  s \in Seq(S)
<1>1. Cardinality(S) \in Nat
  BY FS_CardinalityType
<1>2. s \in [1..Cardinality(S) -> S]
  BY DEF SetToSeqs
<1> QED BY <1>1, <1>2

\* A page of hive-service's list names hives of the user.
LEMMA OwnedPage ==
  ASSUME NEW u, alive \subseteq HiveIds, NEW s \in HivesInOrder(u),
         NEW n \in Nat \ {0}
  PROVE  ToSet(PageOf(s, n, HivePage)) \subseteq OwnedHives(u)
<1>1. IsFiniteSet(OwnedHives(u))
  <2>1. OwnedHives(u) \subseteq HiveIds
    BY DEF OwnedHives
  <2> QED BY <2>1, ListingConstants, FS_Subset
<1>2. s \in Seq(OwnedHives(u))
  BY <1>1, OrdersAreSequences DEF HivesInOrder
<1>3. PageOf(s, n, HivePage) \in Seq(OwnedHives(u))
  BY <1>2, PageOfItems, ListingConstants
<1> QED BY <1>3 DEF ToSet
-----------------------------------------------------------------------------
(* Types.                                                                  *)

\* The codes of answers.
Codes == {"none", "ok", "validation_error", "hive_not_found", "internal_error"}

\* What TypeOK says of the requests, and that one on its way has a page.
Asking ==
  /\ pc \in [Readers -> {"idle", "verify", "hives", "count", "page"}]
  /\ query \in [Readers -> Queries \cup {Null}]
  /\ \A r \in Readers : IF pc[r] = "idle" THEN query[r] = Null ELSE query[r] \in Queries
  /\ scope \in [Readers -> SUBSET HiveIds]
  /\ page \in [Readers -> Nat] /\ total \in [Readers -> Nat]
  /\ \A r \in Readers : pc[r] # "idle" => page[r] # 0
  /\ all \in [Readers -> Seq(HarvestIds)]
  /\ reply \in [Readers -> [code : Codes, items : Seq(HarvestIds), total : Nat]]
  /\ quiet \in [Readers -> BOOLEAN]

\* What it says of the table and the hives.
Stored ==
  /\ rows \in [HarvestIds -> Rows \cup {Null}]
  /\ alive \subseteq HiveIds

\* Together they are TypeOK, and a little more.
LEMMA TypedInParts ==
  ASSUME Asking, Stored
  PROVE  TypeOK
BY DEF Asking, Stored, TypeOK, Codes

\* Both hold initially.
LEMMA TypedInit == Init => Asking /\ Stored
<1> SUFFICES ASSUME Init PROVE Asking /\ Stored
  OBVIOUS
<1>1. NoReply \in [code : Codes, items : Seq(HarvestIds), total : Nat]
  BY DEF NoReply, Codes
<1>2. <<>> \in Seq(HarvestIds)
  OBVIOUS
<1>3. Asking
  BY <1>1, <1>2 DEF Init, Asking
<1>4. Stored
  <2>1. \A h \in HiveIds, b \in Bodies : Row(h, Owner[h], b) \in Rows
    BY ListingConstants DEF Row, Rows
  <2> QED BY <2>1 DEF Init, Stored
<1> QED BY <1>3, <1>4

\* An answer of the right kind leaves the request idle and typed.
LEMMA AnswerTyped ==
  ASSUME Asking, NEW r \in Readers, NEW code \in Codes,
         NEW items \in Seq(HarvestIds), NEW count \in Nat,
         Answer(r, code, items, count)
  PROVE  Asking'
BY DEF Asking, Answer, GoTo

\* The selected records are a finite set of ids.
LEMMA SelectedIds ==
  ASSUME NEW r \in Readers
  PROVE  /\ Selected(r) \subseteq HarvestIds /\ IsFiniteSet(Selected(r))
         /\ Cardinality(Selected(r)) \in Nat
<1>1. Selected(r) \subseteq HarvestIds
  BY DEF Selected, Matches
<1> QED BY <1>1, ListingConstants, FS_Subset, FS_CardinalityType

\* A page of the selected records is a sequence of ids.
LEMMA SelectedPage ==
  ASSUME NEW r \in Readers, NEW order, NEW s \in Ordered(rows, order, Selected(r)),
         NEW n \in Nat \ {0}, NEW limit \in Nat \ {0}
  PROVE  PageOf(s, n, limit) \in Seq(HarvestIds)
<1>1. s \in Seq(Selected(r))
  BY SelectedIds, OrdersAreSequences DEF Ordered
<1>2. s \in Seq(HarvestIds)
  BY <1>1, SelectedIds
<1> QED BY <1>2, PageOfItems

\* Every step of a request keeps the types of all.
LEMMA WorkTyped ==
  ASSUME Asking, Stored, NEW r \in Readers, Work(r)
  PROVE  Asking' /\ Stored'
<1>1. Stored'
  BY DEF Work, Verify, ListOwned, Count, Page, ReportPage, CallFails, Stored
<1> SUFFICES Asking'
  BY <1>1
<1>2. <<>> \in Seq(HarvestIds) /\ 0 \in Nat
  OBVIOUS
<1>3. CASE Verify(r)
  <2>1. CASE query[r].hive \in OwnedHives(query[r].user)
    BY <1>3, <2>1 DEF Verify, GoTo, Asking
  <2>2. CASE query[r].hive \notin OwnedHives(query[r].user)
    <3>1. Answer(r, "hive_not_found", <<>>, 0)
      BY <1>3, <2>2 DEF Verify
    <3>2. "hive_not_found" \in Codes
      BY DEF Codes
    <3> QED BY <1>2, <3>1, <3>2, AnswerTyped
  <2> QED BY <2>1, <2>2
<1>4. CASE ListOwned(r)
  <2>1. PICK owned \in HivesInOrder(query[r].user) :
          LET items == PageOf(owned, page[r], HivePage) IN
          /\ scope' = [scope EXCEPT ![r] = @ \cup ToSet(items)]
          /\ IF page[r] * HivePage >= Len(owned) \/ items = <<>>
             THEN GoTo(r, "count") /\ UNCHANGED page
             ELSE page' = [page EXCEPT ![r] = @ + 1] /\ UNCHANGED pc
    BY <1>4 DEF ListOwned
  <2>2. ToSet(PageOf(owned, page[r], HivePage)) \subseteq HiveIds
    BY <1>4, OwnedPage DEF Asking, Stored, ListOwned, OwnedHives
  <2>3. scope' \in [Readers -> SUBSET HiveIds]
    BY <2>1, <2>2 DEF Asking
  <2>4. pc[r] = "hives" /\ UNCHANGED <<query, total, all, reply, quiet>>
    BY <1>4 DEF ListOwned
  <2>5. \/ pc' = [pc EXCEPT ![r] = "count"] /\ page' = page
        \/ pc' = pc /\ page' = [page EXCEPT ![r] = @ + 1]
    BY <2>1 DEF GoTo
  <2>6. /\ pc' \in [Readers -> {"idle", "verify", "hives", "count", "page"}]
        /\ page' \in [Readers -> Nat]
    <3>1. \A x \in Readers : page[x] \in Nat /\ page[x] + 1 \in Nat
      BY DEF Asking
    <3> QED BY <2>5, <3>1 DEF Asking
  <2>7. \A x \in Readers :
          /\ IF pc'[x] = "idle" THEN query'[x] = Null ELSE query'[x] \in Queries
          /\ pc'[x] # "idle" => page'[x] # 0
    BY <2>4, <2>5 DEF Asking
  <2> QED BY <2>3, <2>4, <2>6, <2>7 DEF Asking
<1>5. CASE Count(r)
  BY <1>5, SelectedIds DEF Count, GoTo, Asking
<1>6. CASE Page(r)
  <2>1. PICK s \in Ordered(rows, query[r].order, Selected(r)) :
          Answer(r, "ok", PageOf(s, query[r].page, query[r].limit), total[r])
    BY <1>6 DEF Page
  <2>2. PageOf(s, query[r].page, query[r].limit) \in Seq(HarvestIds)
    <3>1. query[r].page \in Nat \ {0} /\ query[r].limit \in Nat \ {0}
      BY <1>6, ListingQueries DEF Page, Asking, IsQuery
    <3> QED BY <3>1, SelectedPage
  <2>3. total[r] \in Nat
    BY DEF Asking
  <2>4. "ok" \in Codes
    BY DEF Codes
  <2> QED BY <2>1, <2>2, <2>3, <2>4, AnswerTyped
<1>7. CASE ReportPage(r)
  <2>1. PICK s \in Ordered(rows, {}, Selected(r)) :
          LET items == PageOf(s, page[r], MaxLimit)
              gathered == all[r] \o items
          IN
          \/ Answer(r, "ok", gathered, Len(gathered))
          \/ /\ all' = [all EXCEPT ![r] = gathered]
             /\ page' = [page EXCEPT ![r] = @ + 1]
             /\ GoTo(r, "count")
             /\ UNCHANGED <<query, scope, total, reply, quiet>>
    BY <1>7 DEF ReportPage
  <2> DEFINE gathered == all[r] \o PageOf(s, page[r], MaxLimit)
  <2>2. PageOf(s, page[r], MaxLimit) \in Seq(HarvestIds)
    BY <1>7, SelectedPage, ListingConstants DEF ReportPage, Asking
  <2>3. gathered \in Seq(HarvestIds) /\ Len(gathered) \in Nat
    BY <2>2 DEF Asking
  <2> HIDE DEF gathered
  <2>4. CASE Answer(r, "ok", gathered, Len(gathered))
    <3>1. "ok" \in Codes
      BY DEF Codes
    <3> QED BY <2>3, <2>4, <3>1, AnswerTyped
  <2>5. CASE /\ all' = [all EXCEPT ![r] = gathered]
             /\ page' = [page EXCEPT ![r] = @ + 1]
             /\ GoTo(r, "count")
             /\ UNCHANGED <<query, scope, total, reply, quiet>>
    BY <1>7, <2>3, <2>5 DEF ReportPage, GoTo, Asking
  <2> QED BY <2>1, <2>4, <2>5 DEF gathered
<1>8. CASE CallFails(r)
  <2>1. Answer(r, "internal_error", <<>>, 0)
    BY <1>8 DEF CallFails
  <2>2. "internal_error" \in Codes
    BY DEF Codes
  <2> QED BY <1>2, <2>1, <2>2, AnswerTyped
<1> QED BY <1>1, <1>3, <1>4, <1>5, <1>6, <1>7, <1>8 DEF Work

\* So does a request that arrives, and a writer.
LEMMA OthersTyped ==
  ASSUME Asking, Stored,
         (\E r \in Readers, q \in Queries : Ask(r, q)) \/ Write \/ UNCHANGED vars
  PROVE  Asking' /\ Stored'
<1>1. CASE \E r \in Readers, q \in Queries : Ask(r, q)
  <2> PICK r \in Readers, q \in Queries : Ask(r, q)
    BY <1>1
  <2>1. /\ q.op \in {"list", "listall", "report"}
        /\ q.op # "listall" => q.hive \in HiveIds
    BY ListingQueries DEF IsQuery
  <2>2. /\ NoReply \in [code : Codes, items : Seq(HarvestIds), total : Nat]
        /\ [NoReply EXCEPT !.code = "validation_error"]
             \in [code : Codes, items : Seq(HarvestIds), total : Nat]
    <3>1. <<>> \in Seq(HarvestIds)
      OBVIOUS
    <3>2. NoReply = [code |-> "none", items |-> <<>>, total |-> 0]
      BY DEF NoReply
    <3>3. [NoReply EXCEPT !.code = "validation_error"]
            = [code |-> "validation_error", items |-> <<>>, total |-> 0]
      BY <3>2
    <3> QED BY <3>1, <3>2, <3>3 DEF Codes
  <2>3. CASE Malformed(q)
    BY <2>2, <2>3 DEF Ask, Asking, Stored
  <2>4. CASE ~Malformed(q)
    <3>1. pc' = [pc EXCEPT ![r] = CASE q.op = "list"    -> "verify"
                                    [] q.op = "listall" -> "hives"
                                    [] q.op = "report"  -> "count"]
      BY <2>4 DEF Ask, GoTo
    <3>2. scope' = [scope EXCEPT ![r] = IF q.op = "listall" THEN {} ELSE {q.hive}]
      BY <2>4 DEF Ask
    <3>3. pc' \in [Readers -> {"idle", "verify", "hives", "count", "page"}]
          /\ pc'[r] # "idle" /\ \A x \in Readers \ {r} : pc'[x] = pc[x]
      BY <2>1, <3>1 DEF Asking
    <3>4. scope' \in [Readers -> SUBSET HiveIds]
      <4>1. (IF q.op = "listall" THEN {} ELSE {q.hive}) \in SUBSET HiveIds
        BY <2>1
      <4> QED BY <3>2, <4>1 DEF Asking
    <3>5. /\ query' = [query EXCEPT ![r] = q] /\ reply' = [reply EXCEPT ![r] = NoReply]
          /\ page' = [page EXCEPT ![r] = 1] /\ quiet' = [quiet EXCEPT ![r] = TRUE]
          /\ UNCHANGED <<rows, alive, total, all>>
      BY <2>4 DEF Ask
    <3>6. quiet' \in [Readers -> BOOLEAN]
      BY <3>5, Zenon DEF Asking
    <3>7. query' \in [Readers -> Queries \cup {Null}] /\ query'[r] \in Queries
          /\ \A x \in Readers \ {r} : query'[x] = query[x]
      BY <3>5 DEF Asking
    <3>8. page' \in [Readers -> Nat] /\ page'[r] = 1
          /\ \A x \in Readers \ {r} : page'[x] = page[x]
      <4>1. page \in [Readers -> Nat] /\ 1 \in Nat
        BY DEF Asking
      <4> QED BY <3>5, <4>1
    <3>9. /\ reply' \in [Readers -> [code : Codes, items : Seq(HarvestIds), total : Nat]]
          /\ total' \in [Readers -> Nat] /\ all' \in [Readers -> Seq(HarvestIds)]
      BY <2>2, <3>5 DEF Asking
    <3>10. ASSUME NEW x \in Readers
           PROVE  /\ IF pc'[x] = "idle" THEN query'[x] = Null ELSE query'[x] \in Queries
                  /\ pc'[x] # "idle" => page'[x] # 0
      <4>1. CASE x = r
        BY <3>3, <3>7, <3>8, <4>1
      <4>2. CASE x # r
        <5>1. pc'[x] = pc[x] /\ query'[x] = query[x] /\ page'[x] = page[x]
          BY <3>3, <3>7, <3>8, <4>2
        <5> QED BY <5>1 DEF Asking
      <4> QED BY <4>1, <4>2
    <3>11. Asking'
      BY <3>3, <3>4, <3>6, <3>7, <3>8, <3>9, <3>10 DEF Asking
    <3> QED BY <3>5, <3>11 DEF Stored
  <2> QED BY <2>3, <2>4
<1>2. CASE Write
  <2>1. Asking'
    BY <1>2 DEF Write, Inserts, Updates, Deletes, HiveDies, Noticed, Asking
  <2>2. Stored'
    <3>1. ASSUME NEW id \in HarvestIds, NEW h \in HiveIds, NEW b \in Bodies,
                 Inserts(id, h, b)
          PROVE  Stored'
      <4>1. Row(h, Owner[h], b) \in Rows
        BY ListingConstants DEF Row, Rows
      <4> QED BY <3>1, <4>1 DEF Inserts, CreateRow, Stored
    <3>2. ASSUME NEW id \in HarvestIds, NEW b \in Bodies, Updates(id, b)
          PROVE  Stored'
      <4>1. rows[id] # Null /\ rows[id] \in Rows
        BY <3>2 DEF Updates, Stored
      <4>2. Row(rows[id].hive, rows[id].user, b) \in Rows
        BY <4>1 DEF Row, Rows
      <4>3. rows' = [rows EXCEPT ![id] = Row(rows[id].hive, rows[id].user, b)]
        BY <3>2, <4>1 DEF Updates, UpdateRow, Found
      <4> QED BY <3>2, <4>2, <4>3 DEF Updates, Stored
    <3>3. ASSUME NEW id \in HarvestIds, Deletes(id)
          PROVE  Stored'
      BY <3>3 DEF Deletes, DeleteRows, Stored
    <3>4. ASSUME NEW h \in HiveIds, HiveDies(h)
          PROVE  Stored'
      BY <3>4 DEF HiveDies, Stored
    <3> QED BY <1>2, <3>1, <3>2, <3>3, <3>4 DEF Write
  <2> QED BY <2>1, <2>2
<1>3. CASE UNCHANGED vars
  BY <1>3 DEF vars, asking, Asking, Stored
<1> QED BY <1>1, <1>2, <1>3

\* Every variable keeps its type, whatever is asked and written.
THEOREM ListingTypes == Spec => []TypeOK
<1>1. Init => Asking /\ Stored
  BY TypedInit
<1>2. Asking /\ Stored /\ [Next]_vars => (Asking /\ Stored)'
  BY WorkTyped, OthersTyped DEF Next
<1>3. Asking /\ Stored => TypeOK
  BY TypedInParts
<1> QED BY <1>1, <1>2, <1>3, PTL DEF Spec
-----------------------------------------------------------------------------
(* Whose records.                                                          *)

\* A list that is past Verify, or collects its hives, is over hives of the
\* caller alone; a request on its way has no answer yet.
Scoped ==
  \A r \in Readers :
    /\ pc[r] = "verify" => query[r].op # "report" /\ scope[r] = {query[r].hive}
    /\ pc[r] \in {"hives", "count", "page"} /\ query[r].op # "report" =>
         \A h \in scope[r] : Owner[h] = query[r].user
    /\ pc[r] # "idle" => reply[r].code # "ok"

\* Every step keeps it.
LEMMA ScopedStep ==
  ASSUME Asking, Stored, Scoped, [Next]_vars
  PROVE  Scoped'
<1>1. ASSUME NEW r \in Readers, NEW code, NEW items, NEW count,
             Answer(r, code, items, count)
      PROVE  Scoped'
  BY <1>1 DEF Answer, GoTo, Asking, Scoped
<1>2. ASSUME NEW r \in Readers, Verify(r)
      PROVE  Scoped'
  <2>1. CASE query[r].hive \in OwnedHives(query[r].user)
    <3>1. \A h \in scope[r] : Owner[h] = query[r].user
      BY <1>2, <2>1 DEF Verify, OwnedHives, Scoped
    <3> QED BY <1>2, <2>1, <3>1 DEF Verify, GoTo, Asking, Scoped
  <2>2. CASE query[r].hive \notin OwnedHives(query[r].user)
    BY <1>1, <1>2, <2>2 DEF Verify
  <2> QED BY <2>1, <2>2
<1>3. ASSUME NEW r \in Readers, ListOwned(r)
      PROVE  Scoped'
  <2>1. PICK owned \in HivesInOrder(query[r].user) :
          /\ scope' = [scope EXCEPT ![r] = @ \cup ToSet(PageOf(owned, page[r], HivePage))]
          /\ GoTo(r, "count") \/ UNCHANGED pc
    BY <1>3 DEF ListOwned
  <2>2. pc[r] = "hives" /\ page[r] \in Nat \ {0} /\ UNCHANGED <<query, reply>>
    BY <1>3 DEF ListOwned, Asking
  <2>3. \A h \in ToSet(PageOf(owned, page[r], HivePage)) : Owner[h] = query[r].user
    BY <2>2, OwnedPage DEF Stored, OwnedHives
  <2> QED BY <2>1, <2>2, <2>3 DEF GoTo, Asking, Scoped
<1>4. ASSUME NEW r \in Readers, Count(r)
      PROVE  Scoped'
  BY <1>4 DEF Count, GoTo, Asking, Scoped
<1>5. ASSUME NEW r \in Readers, ReportPage(r)
      PROVE  Scoped'
  <2>1. CASE \E code, items, count : Answer(r, code, items, count)
    BY <1>1, <2>1
  <2>2. CASE GoTo(r, "count") /\ UNCHANGED <<query, scope, reply>>
    BY <1>5, <2>2 DEF ReportPage, GoTo, Asking, Scoped
  <2> QED BY <1>5, <2>1, <2>2 DEF ReportPage
<1>6. ASSUME NEW r \in Readers, Page(r) \/ CallFails(r)
      PROVE  Scoped'
  BY <1>1, <1>6 DEF Page, CallFails
<1>7. ASSUME NEW r \in Readers, NEW q \in Queries, Ask(r, q)
      PROVE  Scoped'
  <2>1. q.op \in {"list", "listall", "report"}
    BY ListingQueries DEF IsQuery
  <2>2. CASE Malformed(q)
    <3>1. /\ pc[r] = "idle" /\ UNCHANGED <<pc, query, scope>>
          /\ \A x \in Readers : x # r => reply'[x] = reply[x]
      BY <1>7, <2>2 DEF Ask, Asking
    <3> QED BY <3>1 DEF Scoped
  <2>3. CASE ~Malformed(q)
    <3>1. /\ query' = [query EXCEPT ![r] = q]
          /\ pc' = [pc EXCEPT ![r] = CASE q.op = "list"    -> "verify"
                                       [] q.op = "listall" -> "hives"
                                       [] q.op = "report"  -> "count"]
          /\ scope' = [scope EXCEPT ![r] = IF q.op = "listall" THEN {} ELSE {q.hive}]
      BY <1>7, <2>3 DEF Ask, GoTo
    <3>2. reply' = [reply EXCEPT ![r] = NoReply] /\ NoReply.code # "ok"
      BY <1>7, <2>3 DEF Ask, NoReply
    <3> QED BY <2>1, <3>1, <3>2 DEF Asking, Scoped
  <2> QED BY <2>2, <2>3
<1>8. CASE Write \/ UNCHANGED vars
  BY <1>8 DEF Write, Inserts, Updates, Deletes, HiveDies, Noticed, vars, asking, Scoped
<1> QED BY <1>2, <1>3, <1>4, <1>5, <1>6, <1>7, <1>8 DEF Next, Work

\* All a request holds.
Held(r) == <<pc[r], query[r], scope[r], page[r], total[r], all[r], reply[r], quiet[r]>>

\* A step of one request changes nothing of another, nor the table.
LEMMA OthersApart ==
  ASSUME Asking, NEW r \in Readers, NEW x \in Readers, x # r,
         Work(x) \/ \E q \in Queries : Ask(x, q)
  PROVE  UNCHANGED <<rows, alive, Held(r)>>
<1>1. ASSUME NEW code, NEW items, NEW count, Answer(x, code, items, count)
      PROVE  UNCHANGED Held(r)
  BY <1>1 DEF Answer, GoTo, Asking, Held
<1>2. CASE Page(x) \/ CallFails(x)
  BY <1>1, <1>2 DEF Page, CallFails
<1>3. CASE Verify(x)
  <2>1. CASE GoTo(x, "count") /\ UNCHANGED <<query, scope, page, total, all, reply, quiet>>
    BY <1>3, <2>1 DEF Verify, GoTo, Asking, Held
  <2> QED
    BY <1>1, <1>3, <2>1 DEF Verify
<1>4. CASE ReportPage(x)
  <2>1. CASE \E code, items, count : Answer(x, code, items, count)
    BY <1>1, <1>4, <2>1 DEF ReportPage
  <2>2. CASE \E g : /\ all' = [all EXCEPT ![x] = g]
                    /\ page' = [page EXCEPT ![x] = @ + 1]
                    /\ GoTo(x, "count")
                    /\ UNCHANGED <<query, scope, total, reply, quiet>>
    BY <1>4, <2>2 DEF ReportPage, GoTo, Asking, Held
  <2> QED
    BY <1>4, <2>1, <2>2 DEF ReportPage
<1>5. CASE ListOwned(x) \/ Count(x)
  BY <1>5 DEF ListOwned, Count, GoTo, Asking, Held
<1>6. CASE \E q \in Queries : Ask(x, q)
  <2> PICK q \in Queries : Ask(x, q)
    BY <1>6
  <2>1. CASE Malformed(q)
    BY <2>1 DEF Ask, Asking, Held
  <2>2. CASE ~Malformed(q)
    BY <2>2 DEF Ask, GoTo, Asking, Held
  <2> QED
    BY <2>1, <2>2
<1> QED
  BY <1>2, <1>3, <1>4, <1>5, <1>6 DEF Work

\* Only the last page of a list or of a report answers it with records.
LEMMA OkAnswers ==
  ASSUME Asking, Scoped, [Next]_vars, NEW r \in Readers, pc[r] = "page", reply'[r].code = "ok"
  PROVE  \/ query[r].op # "report" /\ Page(r)
         \/ query[r].op = "report" /\ ReportPage(r)
<1>1. reply'[r] # reply[r]
  BY DEF Scoped
<1>2. CASE \E x \in Readers : x # r /\ (Work(x) \/ \E q \in Queries : Ask(x, q))
  <2>1. UNCHANGED Held(r)
    BY <1>2, OthersApart
  <2> QED
    BY <1>1, <2>1 DEF Held
<1>3. CASE Write \/ UNCHANGED vars
  BY <1>1, <1>3 DEF Write, Inserts, Updates, Deletes, HiveDies, Noticed, vars, asking
<1>4. CASE Work(r) \/ \E q \in Queries : Ask(r, q)
  <2>1. ~CallFails(r)
    BY DEF CallFails, Answer, Asking
  <2> QED
    BY <1>4, <2>1 DEF Work, Verify, ListOwned, Count, Page, ReportPage, Ask
<1> QED
  BY <1>2, <1>3, <1>4 DEF Next

\* What an answer says.
LEMMA AnswerSays ==
  ASSUME Asking, NEW r \in Readers, NEW code, NEW items, NEW count,
         Answer(r, code, items, count)
  PROVE  reply'[r].items = items /\ reply'[r].total = count
<1>1. reply'[r] = [code |-> code, items |-> items, total |-> count]
  BY DEF Answer, Asking
<1> QED
  BY <1>1

\* A list shows records of the caller's hives only, whatever has happened to
\* the hives and the table since it asked for them.
THEOREM ListedOwnOnly == Spec => ListsOnlyOwn
<1>1. ASSUME Asking, Stored, Scoped, [Next]_vars, NEW r \in Readers,
             pc[r] = "page", query[r].op # "report", reply'[r].code = "ok"
      PROVE  \A id \in ToSet(reply'[r].items) :
               rows[id] # Null /\ Owner[rows[id].hive] = query[r].user
  <2>1. Page(r)
    BY <1>1, OkAnswers
  <2>2. PICK s \in Ordered(rows, query[r].order, Selected(r)) :
          Answer(r, "ok", PageOf(s, query[r].page, query[r].limit), total[r])
    BY <2>1 DEF Page
  <2>3. reply'[r].items = PageOf(s, query[r].page, query[r].limit)
    BY <1>1, <2>2, AnswerSays
  <2>4. s \in Seq(Selected(r))
    BY SelectedIds, OrdersAreSequences DEF Ordered
  <2>5. query[r].page \in Nat \ {0} /\ query[r].limit \in Nat \ {0}
    BY <1>1, ListingQueries DEF Asking, IsQuery
  <2>6. PageOf(s, query[r].page, query[r].limit) \in Seq(Selected(r))
    BY <2>4, <2>5, PageOfItems
  <2>7. ToSet(reply'[r].items) \subseteq Selected(r)
    BY <2>3, <2>6 DEF ToSet
  <2>8. \A id \in Selected(r) : rows[id] # Null /\ rows[id].hive \in scope[r]
    BY DEF Selected, Matches
  <2> QED
    BY <1>1, <2>7, <2>8 DEF Scoped
<1>2. Asking /\ Stored /\ Scoped /\ [Next]_vars =>
        [\A r \in Readers :
           pc[r] = "page" /\ query[r].op # "report" /\ reply'[r].code = "ok" =>
             \A id \in ToSet(reply'[r].items) :
               rows[id] # Null /\ Owner[rows[id].hive] = query[r].user]_vars
  BY <1>1
<1>3. Init => Asking /\ Stored /\ Scoped
  <2>1. Init => Scoped
    BY DEF Init, Scoped
  <2> QED BY <2>1, TypedInit
<1>4. Asking /\ Stored /\ Scoped /\ [Next]_vars => (Asking /\ Stored /\ Scoped)'
  BY WorkTyped, OthersTyped, ScopedStep DEF Next
<1> QED BY <1>2, <1>3, <1>4, PTL DEF Spec, ListsOnlyOwn
-----------------------------------------------------------------------------
(* Sorted lists.                                                           *)

\* The members of S that R puts before x.
Before(S, R, x) == {y \in S : y # x /\ <<y, x>> \in R}

\* s lists the set S once, each member before those R puts it before.
Sorted(s, S, R) ==
  s \in SetToSeqs(S) /\ \A i, j \in DOMAIN s : i < j => <<s[i], s[j]>> \in R

\* In a sorted list every member stands behind as many as are before it.
LEMMA SortedRank ==
  ASSUME NEW S, IsFiniteSet(S), NEW R, NEW s, Sorted(s, S, R),
         \A x, y \in S : <<x, y>> \in R => <<y, x>> \notin R
  PROVE  /\ s \in Seq(S) /\ Len(s) = Cardinality(S) /\ Cardinality(S) \in Nat
         /\ DOMAIN s = 1..Cardinality(S)
         /\ \A i, j \in DOMAIN s : i # j => s[i] # s[j]
         /\ \A x \in S : \E i \in DOMAIN s : x = s[i]
         /\ \A k \in DOMAIN s : Cardinality(Before(S, R, s[k])) = k - 1
<1> DEFINE n == Cardinality(S)
<1>1. n \in Nat
  BY FS_CardinalityType
<1>2. s \in [1..n -> S] /\ \A i, j \in 1..n : i # j => s[i] # s[j]
  BY DEF Sorted, SetToSeqs
<1>3. s \in Seq(S) /\ Len(s) = n /\ DOMAIN s = 1..n
  BY <1>1, <1>2
<1>4. \A x \in S : \E i \in DOMAIN s : x = s[i]
  <2>1. s \in Injection(1..n, S)
    BY <1>2 DEF Injection, IsInjective
  <2>2. Cardinality(1..n) = n
    BY <1>1, FS_Interval
  <2>3. s \in Surjection(1..n, S)
    BY <2>1, <2>2, FS_Injection
  <2> QED
    BY <1>3, <2>3 DEF Surjection
<1>5. ASSUME NEW k \in DOMAIN s
      PROVE  Cardinality(Before(S, R, s[k])) = k - 1
  <2> DEFINE B == Before(S, R, s[k])
             f == [i \in 1..(k - 1) |-> s[i]]
  <2>1. k \in 1..n /\ k \in Int
    BY <1>1, <1>3
  <2>2. \A i \in 1..(k - 1) : i \in 1..n /\ i < k
    BY <1>1, <2>1
  <2>3. \A i \in 1..(k - 1) : s[i] \in B
    BY <1>2, <1>3, <2>1, <2>2 DEF Before, Sorted
  <2>4. \A x \in B : \E i \in 1..(k - 1) : x = s[i]
    <3> SUFFICES ASSUME NEW x \in B PROVE \E i \in 1..(k - 1) : x = s[i]
      OBVIOUS
    <3>1. x \in S /\ x # s[k] /\ <<x, s[k]>> \in R
      BY DEF Before
    <3>2. PICK i \in 1..n : x = s[i]
      BY <1>3, <1>4, <3>1
    <3>3. ~(k < i)
      BY <1>2, <1>3, <2>1, <3>1, <3>2 DEF Sorted
    <3>4. i # k
      BY <3>1, <3>2
    <3>5. i \in 1..(k - 1)
      BY <1>1, <2>1, <3>3, <3>4
    <3> QED
      BY <3>2, <3>5
  <2>5. f \in Bijection(1..(k - 1), B)
    <3> HIDE DEF B
    <3>1. f \in [1..(k - 1) -> B]
      BY <2>3
    <3>2. \A i, j \in 1..(k - 1) : f[i] = f[j] => i = j
      BY <1>2, <2>2
    <3>3. \A x \in B : \E i \in 1..(k - 1) : f[i] = x
      BY <2>4
    <3> HIDE DEF f
    <3> QED
      BY <3>1, <3>2, <3>3 DEF Bijection, Injection, IsInjective, Surjection
  <2>6. IsFiniteSet(1..(k - 1)) /\ Cardinality(1..(k - 1)) = k - 1
    BY <2>1, FS_Interval
  <2>7. ExistsBijection(1..(k - 1), B)
    BY <2>5 DEF ExistsBijection
  <2> QED
    BY <2>6, <2>7, FS_Bijection
<1> QED
  BY <1>1, <1>2, <1>3, <1>4, <1>5

\* There is one sorted list of a set at most.
LEMMA SortedOnce ==
  ASSUME NEW S, IsFiniteSet(S), NEW R, NEW s, NEW t, Sorted(s, S, R), Sorted(t, S, R),
         \A x, y \in S : <<x, y>> \in R => <<y, x>> \notin R
  PROVE  s = t
<1>1. /\ s \in Seq(S) /\ t \in Seq(S) /\ Len(s) = Len(t)
      /\ DOMAIN s = 1..Len(s) /\ DOMAIN t = DOMAIN s
  BY SortedRank
<1>2. ASSUME NEW k \in DOMAIN s PROVE s[k] = t[k]
  <2>1. PICK j \in DOMAIN t : s[k] = t[j]
    <3>1. s[k] \in S
      BY <1>1
    <3> QED
      BY <3>1, SortedRank
  <2>2. k - 1 = j - 1
    <3>1. Cardinality(Before(S, R, s[k])) = k - 1
      BY SortedRank
    <3>2. Cardinality(Before(S, R, t[j])) = j - 1
      BY SortedRank
    <3> QED
      BY <2>1, <3>1, <3>2
  <2>3. k = j
    BY <1>1, <2>2
  <2> QED
    BY <2>1, <2>3
<1> QED
  BY <1>1, <1>2

-----------------------------------------------------------------------------
(* Parts of a list.                                                        *)

\* The items of s after the first a, up to b of them in all.
Part(s, a, b) == SubSeq(s, a + 1, Min({b, Len(s)}))

\* A part has as many items as there are left, and they are those of s.
LEMMA PartItems ==
  ASSUME NEW S, NEW s \in Seq(S), NEW a \in Nat, NEW b \in Nat, a <= b
  PROVE  /\ Part(s, a, b) \in Seq(S)
         /\ Len(Part(s, a, b)) = IF b <= Len(s) THEN b - a
                                 ELSE IF a <= Len(s) THEN Len(s) - a ELSE 0
         /\ \A k \in 1..Len(Part(s, a, b)) : Part(s, a, b)[k] = s[a + k] /\ a + k \in 1..Len(s)
<1> DEFINE last == Min({b, Len(s)})
<1>1. Len(s) \in Nat
  OBVIOUS
<1>2. last \in {b, Len(s)} /\ last <= b /\ last <= Len(s)
  <2>1. b \in Int /\ Len(s) \in Int
    BY <1>1
  <2> QED
    BY <2>1, MinOfTwo
<1> HIDE DEF last
<1>3. a + 1 \in Int /\ last \in Int /\ \A i \in (a + 1)..last : s[i] \in S
  BY <1>1, <1>2
<1>4. /\ SubSeq(s, a + 1, last) \in Seq(S)
      /\ Len(SubSeq(s, a + 1, last)) = IF a + 1 <= last THEN last - (a + 1) + 1 ELSE 0
      /\ \A i \in 1..(last - (a + 1) + 1) : SubSeq(s, a + 1, last)[i] = s[(a + 1) + i - 1]
  BY <1>3, SubSeqProperties
<1>5. Part(s, a, b) = SubSeq(s, a + 1, last)
  BY DEF Part, last
<1>6. Len(Part(s, a, b)) = IF b <= Len(s) THEN b - a
                           ELSE IF a <= Len(s) THEN Len(s) - a ELSE 0
  BY <1>1, <1>2, <1>4, <1>5
<1>7. ASSUME NEW k \in 1..Len(Part(s, a, b))
      PROVE  Part(s, a, b)[k] = s[a + k] /\ a + k \in 1..Len(s)
  <2>1. k \in 1..(last - (a + 1) + 1)
    BY <1>1, <1>2, <1>4, <1>5, <1>7
  <2>2. (a + 1) + k - 1 = a + k /\ a + k \in 1..Len(s)
    BY <1>1, <1>2, <2>1
  <2> QED
    BY <1>4, <1>5, <2>1, <2>2
<1> QED
  BY <1>4, <1>5, <1>6, <1>7

\* Neighbouring parts make one.
LEMMA PartsJoin ==
  ASSUME NEW S, NEW s \in Seq(S), NEW a \in Nat, NEW b \in Nat, a <= b
  PROVE  Part(s, 0, a) \o Part(s, a, b) = Part(s, 0, b)
<1> DEFINE x == Part(s, 0, a)
           y == Part(s, a, b)
           z == Part(s, 0, b)
<1>1. Len(s) \in Nat
  OBVIOUS
<1>2. /\ x \in Seq(S) /\ \A k \in 1..Len(x) : x[k] = s[k]
      /\ Len(x) = IF a <= Len(s) THEN a ELSE Len(s)
  <2>1. \A k \in 1..Len(x) : x[k] = s[0 + k]
    BY PartItems
  <2>2. \A k \in 1..Len(x) : 0 + k = k
    OBVIOUS
  <2>3. x \in Seq(S) /\ Len(x) = IF a <= Len(s) THEN a - 0 ELSE IF 0 <= Len(s) THEN Len(s) - 0 ELSE 0
    BY PartItems
  <2> HIDE DEF x
  <2> QED
    BY <1>1, <2>1, <2>2, <2>3
<1>3. /\ z \in Seq(S) /\ \A k \in 1..Len(z) : z[k] = s[k]
      /\ Len(z) = IF b <= Len(s) THEN b ELSE Len(s)
  <2>1. \A k \in 1..Len(z) : z[k] = s[0 + k]
    BY PartItems
  <2>2. \A k \in 1..Len(z) : 0 + k = k
    OBVIOUS
  <2>3. z \in Seq(S) /\ Len(z) = IF b <= Len(s) THEN b - 0 ELSE IF 0 <= Len(s) THEN Len(s) - 0 ELSE 0
    BY PartItems
  <2> HIDE DEF z
  <2> QED
    BY <1>1, <2>1, <2>2, <2>3
<1>4. /\ y \in Seq(S) /\ \A k \in 1..Len(y) : y[k] = s[a + k]
      /\ Len(y) = IF b <= Len(s) THEN b - a
                  ELSE IF a <= Len(s) THEN Len(s) - a ELSE 0
  BY PartItems
<1> HIDE DEF x, y, z
<1>5. /\ x \o y \in Seq(S) /\ Len(x \o y) = Len(x) + Len(y)
      /\ \A i \in 1..(Len(x) + Len(y)) :
           (x \o y)[i] = IF i <= Len(x) THEN x[i] ELSE y[i - Len(x)]
  <2>1. x \in Seq(S) /\ y \in Seq(S)
    BY <1>2, <1>4
  <2> QED
    BY <2>1, ConcatProperties
<1>6. Len(x) \in Nat /\ Len(y) \in Nat /\ Len(x) + Len(y) = Len(z)
  <2> DEFINE n == Len(s)
  <2>1. /\ n \in Nat
        /\ Len(x) = IF a <= n THEN a ELSE n
        /\ Len(z) = IF b <= n THEN b ELSE n
        /\ Len(y) = IF b <= n THEN b - a ELSE IF a <= n THEN n - a ELSE 0
    BY <1>1, <1>2, <1>3, <1>4
  <2> HIDE DEF n
  <2> QED
    BY <2>1
<1>7. ASSUME NEW k \in 1..Len(z) PROVE (x \o y)[k] = z[k]
  <2>1. CASE k <= Len(x)
    <3>1. k \in 1..(Len(x) + Len(y)) /\ k \in 1..Len(x)
      BY <1>6, <2>1
    <3> QED
      BY <1>2, <1>3, <1>5, <2>1, <3>1
  <2>2. CASE k > Len(x)
    <3>1. (x \o y)[k] = y[k - Len(x)] /\ k - Len(x) \in 1..Len(y)
      <4>1. k \in 1..(Len(x) + Len(y)) /\ ~(k <= Len(x)) /\ k - Len(x) \in 1..Len(y)
        BY <1>6, <2>2
      <4> QED
        BY <1>5, <4>1
    <3>2. Len(x) = a
      BY <1>1, <1>2, <1>4, <3>1
    <3>3. y[k - Len(x)] = s[a + (k - Len(x))] /\ a + (k - Len(x)) = k
      BY <1>4, <3>1, <3>2
    <3> QED
      BY <1>3, <3>1, <3>3
  <2> QED
    BY <1>6, <2>1, <2>2
<1>8. x \o y = z
  <2>1. /\ x \o y \in Seq(S) /\ z \in Seq(S) /\ Len(x \o y) = Len(z)
        /\ \A k \in 1..Len(x \o y) : (x \o y)[k] = z[k]
    BY <1>3, <1>5, <1>6, <1>7
  <2> QED
    BY <2>1, SeqEqual
<1> QED
  BY <1>8 DEF x, y, z

\* A page is a part.
LEMMA PageIsPart ==
  ASSUME NEW s, NEW n \in Nat \ {0}, NEW limit \in Nat \ {0}
  PROVE  /\ PageOf(s, n, limit) = Part(s, (n - 1) * limit, n * limit)
         /\ (n - 1) * limit \in Nat /\ n * limit \in Nat
         /\ n * limit = (n - 1) * limit + limit
<1>1. (n - 1) \in Nat /\ limit \in Nat /\ n \in Nat
  OBVIOUS
<1>2. (n - 1) * limit \in Nat /\ n * limit \in Nat
  BY <1>1
<1>3. n * limit = (n - 1) * limit + limit
  BY <1>1
<1> QED
  BY <1>2, <1>3 DEF PageOf, Part

-----------------------------------------------------------------------------
(* Orders and ranks.                                                       *)

\* The pairs of ids in the order of a listing.
InOrder(order, ids) == {p \in ids \X ids : Precedes(rows, order, p[1], p[2])}

\* ORDER BY leaves two rows in one order only, and lists them sorted.
LEMMA OrderIsStrict ==
  ASSUME Stored, NEW order, order \subseteq SortOrders, \A x, y \in order : x = y,
         NEW ids, ids \subseteq HarvestIds, \A id \in ids : rows[id] # Null
  PROVE  \A x, y \in ids : <<x, y>> \in InOrder(order, ids) => <<y, x>> \notin InOrder(order, ids)
<1>1. order \in {{}, {"asc"}, {"desc"}}
  BY DEF SortOrders
<1>2. \A x \in ids : x \in Nat /\ Day(rows, x) \in Int /\ rows[x].body.made \in Nat
  <2> SUFFICES ASSUME NEW x \in ids
               PROVE  x \in Nat /\ Day(rows, x) \in Int /\ rows[x].body.made \in Nat
    OBVIOUS
  <2>1. rows[x] \in Rows
    BY DEF Stored
  <2>2. rows[x].body \in Bodies
    BY <2>1 DEF Rows
  <2>3. OnCalendar(rows[x].body.date) /\ rows[x].body.made \in Nat
    BY <2>2, ListingConstants
  <2>4. DayNumber(rows[x].body.date) \in Int
    BY <2>3, CalendarIsProper, DaysInOrder
  <2> QED
    BY <2>3, <2>4, ListingConstants DEF Day
<1>3. ASSUME NEW x \in ids, NEW y \in ids, Precedes(rows, order, x, y)
      PROVE  ~Precedes(rows, order, y, x)
  <2>1. /\ x \in Nat /\ Day(rows, x) \in Int /\ rows[x].body.made \in Nat
        /\ y \in Nat /\ Day(rows, y) \in Int /\ rows[y].body.made \in Nat
    BY <1>2
  <2>2. CASE order = {}
    <3>1. \A v, w : Precedes(rows, order, v, w) <=>
                      \/ Day(rows, v) > Day(rows, w)
                      \/ Day(rows, v) = Day(rows, w) /\ v > w
      <4>1. {} # {"asc"} /\ {} # {"desc"}
        OBVIOUS
      <4> QED
        BY <2>2, <4>1 DEF Precedes
    <3> QED
      BY <1>3, <2>1, <3>1
  <2>3. CASE order = {"asc"}
    <3>1. \A v, w : Precedes(rows, order, v, w) <=>
                      \/ rows[v].body.made < rows[w].body.made
                      \/ rows[v].body.made = rows[w].body.made /\ v < w
      <4>1. {"asc"} # {} /\ {"asc"} # {"desc"}
        OBVIOUS
      <4> QED
        BY <2>3, <4>1 DEF Precedes
    <3> QED
      BY <1>3, <2>1, <3>1
  <2>4. CASE order = {"desc"}
    BY <1>3, <2>1, <2>4 DEF Precedes
  <2> QED
    BY <1>1, <2>2, <2>3, <2>4
<1> QED
  BY <1>3 DEF InOrder

\* What a listing is over: rows that are there, in one of the orders.
Listable(order, ids) ==
  /\ order \subseteq SortOrders /\ \A x, y \in order : x = y
  /\ ids \subseteq HarvestIds /\ \A id \in ids : rows[id] # Null

\* The order of the statement is the one the documents promise.
LEMMA OrderAsDocumented ==
  ASSUME Stored, NEW order, NEW ids, Listable(order, ids),
         NEW x \in ids, NEW y \in ids, x # y
  PROVE  Precedes(rows, order, x, y) <=> ComesBefore(order, x, y)
<1>1. order = {} \/ order = {"asc"} \/ order = {"desc"}
  BY DEF SortOrders, Listable
<1>2. \A z \in ids : z \in Nat /\ OnCalendar(rows[z].body.date) /\ rows[z].body.made \in Nat
  <2> SUFFICES ASSUME NEW z \in ids
               PROVE  z \in Nat /\ OnCalendar(rows[z].body.date) /\ rows[z].body.made \in Nat
    OBVIOUS
  <2>1. z \in HarvestIds /\ rows[z] \in Rows
    BY DEF Stored, Listable
  <2>2. rows[z].body \in Bodies
    BY <2>1 DEF Rows
  <2> QED
    BY <2>1, <2>2, ListingConstants
<1>3. CASE order = {}
  <2>1. {} # {"asc"} /\ {} # {"desc"}
    OBVIOUS
  <2>2. /\ Day(rows, x) <= Day(rows, y) <=> NotAfter(rows[x].body.date, rows[y].body.date)
        /\ Day(rows, y) <= Day(rows, x) <=> NotAfter(rows[y].body.date, rows[x].body.date)
        /\ Day(rows, x) \in Int /\ Day(rows, y) \in Int
    BY <1>2, CalendarIsProper, DaysInOrder DEF Day
  <2>3. Precedes(rows, order, x, y) <=>
          \/ Day(rows, x) > Day(rows, y)
          \/ Day(rows, x) = Day(rows, y) /\ x > y
    BY <1>3, <2>1 DEF Precedes
  <2>4. ComesBefore(order, x, y) <=>
          /\ Day(rows, y) <= Day(rows, x)
          /\ Day(rows, x) <= Day(rows, y) => x > y
    BY <1>3, <2>1, <2>2 DEF ComesBefore
  <2> QED
    BY <1>2, <2>2, <2>3, <2>4
<1>4. CASE order = {"asc"}
  <2>1. {"asc"} # {} /\ {"asc"} # {"desc"}
    OBVIOUS
  <2> QED
    BY <1>2, <1>4, <2>1 DEF Precedes, ComesBefore
<1>5. CASE order = {"desc"}
  <2>1. {"desc"} # {} /\ {"desc"} # {"asc"}
    OBVIOUS
  <2> QED
    BY <1>2, <1>5, <2>1 DEF Precedes, ComesBefore
<1> QED
  BY <1>1, <1>3, <1>4, <1>5

\* The rank of a record is its place in the listing.
LEMMA ListingRanks ==
  ASSUME Stored, NEW order, NEW ids, Listable(order, ids), NEW s \in Ordered(rows, order, ids)
  PROVE  /\ s \in Seq(ids) /\ Len(s) = Cardinality(ids) /\ Cardinality(ids) \in Nat
         /\ \A i, j \in 1..Len(s) : i # j => s[i] # s[j]
         /\ \A x \in ids : \E i \in 1..Len(s) : x = s[i]
         /\ \A k \in 1..Len(s) : Rank(ids, order, s[k]) = k - 1
         /\ \A t \in Ordered(rows, order, ids) : t = s
<1> DEFINE R == InOrder(order, ids)
<1>1. IsFiniteSet(ids)
  BY ListingConstants, FS_Subset DEF Listable
<1>2. \A x, y \in ids : <<x, y>> \in R => <<y, x>> \notin R
  BY OrderIsStrict DEF Listable
<1>3. \A t \in Ordered(rows, order, ids) : Sorted(t, ids, R)
  <2> SUFFICES ASSUME NEW t \in Ordered(rows, order, ids) PROVE Sorted(t, ids, R)
    OBVIOUS
  <2>1. t \in SetToSeqs(ids) /\ \A i, j \in DOMAIN t : i < j => Precedes(rows, order, t[i], t[j])
    BY DEF Ordered
  <2>2. t \in Seq(ids)
    BY <1>1, <2>1, OrdersAreSequences
  <2>3. \A i \in DOMAIN t : t[i] \in ids
    BY <2>2
  <2> QED
    BY <2>1, <2>3 DEF Sorted, InOrder
<1>4. \A x \in ids : Rank(ids, order, x) = Cardinality(Before(ids, R, x))
  <2> SUFFICES ASSUME NEW x \in ids
               PROVE  Rank(ids, order, x) = Cardinality(Before(ids, R, x))
    OBVIOUS
  <2>1. Before(ids, R, x) = {y \in ids : y # x /\ Precedes(rows, order, y, x)}
    BY DEF Before, InOrder
  <2>2. \A y \in ids : y # x => (Precedes(rows, order, y, x) <=> ComesBefore(order, y, x))
    BY OrderAsDocumented
  <2> QED
    BY <2>1, <2>2 DEF Rank
<1> HIDE DEF R
<1>5. /\ s \in Seq(ids) /\ Len(s) = Cardinality(ids) /\ Cardinality(ids) \in Nat
      /\ DOMAIN s = 1..Cardinality(ids)
      /\ \A i, j \in DOMAIN s : i # j => s[i] # s[j]
      /\ \A x \in ids : \E i \in DOMAIN s : x = s[i]
      /\ \A k \in DOMAIN s : Cardinality(Before(ids, R, s[k])) = k - 1
  BY <1>1, <1>2, <1>3, SortedRank
<1>6. \A k \in 1..Len(s) : Rank(ids, order, s[k]) = k - 1
  <2>1. \A k \in 1..Len(s) : s[k] \in ids
    BY <1>5
  <2> QED
    BY <1>4, <1>5, <2>1
<1>7. \A t \in Ordered(rows, order, ids) : t = s
  BY <1>1, <1>2, <1>3, SortedOnce
<1> QED
  BY <1>5, <1>6, <1>7

\* A part of a listing is exact.
LEMMA PartIsExact ==
  ASSUME Stored, NEW order, NEW ids, Listable(order, ids), NEW s \in Ordered(rows, order, ids),
         NEW a \in Nat, NEW b \in Nat, a <= b
  PROVE  Exactly(Part(s, a, b), ids, order, a, b)
<1> DEFINE p == Part(s, a, b)
           there == {id \in ids : Rank(ids, order, id) \in a..(b - 1)}
           f == [k \in 1..Len(p) |-> s[a + k]]
<1>1. /\ s \in Seq(ids) /\ Len(s) \in Nat
      /\ \A i, j \in 1..Len(s) : i # j => s[i] # s[j]
      /\ \A x \in ids : \E i \in 1..Len(s) : x = s[i]
      /\ \A k \in 1..Len(s) : s[k] \in ids /\ Rank(ids, order, s[k]) = k - 1
  <2>1. /\ s \in Seq(ids) /\ Len(s) \in Nat
        /\ \A i, j \in 1..Len(s) : i # j => s[i] # s[j]
        /\ \A x \in ids : \E i \in 1..Len(s) : x = s[i]
        /\ \A k \in 1..Len(s) : Rank(ids, order, s[k]) = k - 1
    BY ListingRanks
  <2>2. \A k \in 1..Len(s) : s[k] \in ids
    BY <2>1
  <2> QED
    BY <2>1, <2>2
<1>2. /\ p \in Seq(ids)
      /\ Len(p) = IF b <= Len(s) THEN b - a
                  ELSE IF a <= Len(s) THEN Len(s) - a ELSE 0
      /\ \A k \in 1..Len(p) : p[k] = s[a + k] /\ a + k \in 1..Len(s)
  BY <1>1, PartItems
<1> HIDE DEF p
<1>3. Len(p) \in Nat /\ Len(p) <= b - a /\ DOMAIN p = 1..Len(p)
  <2>1. Len(p) \in Nat /\ DOMAIN p = 1..Len(p)
    BY <1>2
  <2> DEFINE n == Len(s)
  <2>2. n \in Nat /\ Len(p) = IF b <= n THEN b - a ELSE IF a <= n THEN n - a ELSE 0
    BY <1>1, <1>2
  <2> HIDE DEF n
  <2> QED
    BY <2>1, <2>2
<1>4. \A k \in 1..Len(p) : s[a + k] \in there
  <2> SUFFICES ASSUME NEW k \in 1..Len(p) PROVE s[a + k] \in there
    OBVIOUS
  <2>1. a + k \in 1..Len(s) /\ (a + k) - 1 \in a..(b - 1)
    BY <1>2, <1>3
  <2> QED
    BY <1>1, <2>1
<1>5. \A x \in there : \E k \in 1..Len(p) : x = s[a + k]
  <2> SUFFICES ASSUME NEW x \in there PROVE \E k \in 1..Len(p) : x = s[a + k]
    OBVIOUS
  <2>1. PICK i \in 1..Len(s) : x = s[i]
    BY <1>1
  <2>2. i - 1 \in a..(b - 1)
    BY <1>1, <2>1
  <2>3. i - a \in 1..Len(p) /\ a + (i - a) = i
    BY <1>1, <1>2, <2>2
  <2> QED
    BY <2>1, <2>3
<1>6. \A i, j \in 1..Len(p) : s[a + i] = s[a + j] => i = j
  <2> SUFFICES ASSUME NEW i \in 1..Len(p), NEW j \in 1..Len(p), i # j
               PROVE  s[a + i] # s[a + j]
    OBVIOUS
  <2>1. a + i \in 1..Len(s) /\ a + j \in 1..Len(s) /\ a + i # a + j
    BY <1>2, <1>3
  <2> QED
    BY <1>1, <2>1
<1> HIDE DEF there
<1>7. f \in Bijection(1..Len(p), there)
  <2>1. f \in [1..Len(p) -> there]
    BY <1>4
  <2>2. \A i, j \in 1..Len(p) : f[i] = f[j] => i = j
    BY <1>6
  <2>3. \A x \in there : \E k \in 1..Len(p) : f[k] = x
    BY <1>5
  <2> HIDE DEF f
  <2> QED
    BY <2>1, <2>2, <2>3 DEF Bijection, Injection, IsInjective, Surjection
<1>8. Cardinality(there) = Len(p)
  <2>1. IsFiniteSet(1..Len(p)) /\ Cardinality(1..Len(p)) = Len(p)
    <3>1. 1 \in Int /\ Len(p) \in Int
      BY <1>3
    <3>2. /\ IsFiniteSet(1..Len(p))
          /\ Cardinality(1..Len(p)) = IF 1 > Len(p) THEN 0 ELSE Len(p) - 1 + 1
      BY <3>1, FS_Interval
    <3> QED
      BY <1>3, <3>2
  <2>2. ExistsBijection(1..Len(p), there)
    BY <1>7 DEF ExistsBijection
  <2> QED
    BY <2>1, <2>2, FS_Bijection
<1>9. \A k \in 1..Len(p) : p[k] \in ids /\ Rank(ids, order, p[k]) = a + k - 1
  <2> SUFFICES ASSUME NEW k \in 1..Len(p)
               PROVE  p[k] \in ids /\ Rank(ids, order, p[k]) = a + k - 1
    OBVIOUS
  <2>1. p[k] = s[a + k] /\ a + k \in 1..Len(s)
    BY <1>2
  <2> QED
    BY <1>1, <2>1
<1> QED
  BY <1>3, <1>8, <1>9 DEF Exactly, p, there

-----------------------------------------------------------------------------
(* What a request holds while nothing changes.                             *)

\* hive-service has one list of a user's hives, and all of them are on it.
LEMMA OwnedList ==
  ASSUME Stored, NEW u, NEW owned \in HivesInOrder(u)
  PROVE  /\ owned \in Seq(OwnedHives(u)) /\ ToSet(owned) = OwnedHives(u)
         /\ \A other \in HivesInOrder(u) : other = owned
<1> DEFINE S == OwnedHives(u)
           R == {p \in S \X S : p[1] < p[2]}
<1>1. S \subseteq HiveIds /\ IsFiniteSet(S)
  <2>1. S \subseteq HiveIds
    BY DEF Stored, OwnedHives
  <2> QED
    BY <2>1, ListingConstants, FS_Subset
<1>2. \A x, y \in S : <<x, y>> \in R => <<y, x>> \notin R
  <2>1. HiveIds \subseteq Int
    BY ListingConstants
  <2>2. \A x, y \in S : x \in Int /\ y \in Int
    BY <1>1, <2>1
  <2>3. \A x, y \in S : x < y => ~(y < x)
    BY <2>2
  <2> QED
    BY <2>3
<1>3. \A t \in HivesInOrder(u) : Sorted(t, S, R)
  <2> SUFFICES ASSUME NEW t \in HivesInOrder(u) PROVE Sorted(t, S, R)
    OBVIOUS
  <2>1. t \in SetToSeqs(S) /\ \A i, j \in DOMAIN t : i < j => t[i] < t[j]
    BY DEF HivesInOrder
  <2>2. t \in Seq(S)
    BY <1>1, <2>1, OrdersAreSequences
  <2>3. \A i \in DOMAIN t : t[i] \in S
    BY <2>2
  <2> QED
    BY <2>1, <2>3 DEF Sorted
<1> HIDE DEF S, R
<1>4. owned \in Seq(S) /\ \A x \in S : \E i \in DOMAIN owned : x = owned[i]
  BY <1>1, <1>2, <1>3, SortedRank
<1>5. ToSet(owned) = S
  <2>1. \A i \in DOMAIN owned : owned[i] \in S
    BY <1>4
  <2> QED
    BY <1>4, <2>1 DEF ToSet
<1>6. \A other \in HivesInOrder(u) : other = owned
  BY <1>1, <1>2, <1>3, SortedOnce
<1> QED
  BY <1>4, <1>5, <1>6 DEF S

\* Up to some page, a list of hives and a report hold what the pages before
\* it hold; past the last page of hives, all of them; after the count, it is
\* the count.  Queries on their way were accepted.
Undisturbed(r) ==
  /\ pc[r] # "idle" => ~Malformed(query[r])
  /\ pc[r] = "idle" => all[r] = <<>>
  /\ quiet[r] =>
       /\ pc[r] \in {"verify", "count", "page"} => scope[r] = HivesAsked(query[r])
       /\ pc[r] = "hives" =>
            /\ query[r].op = "listall"
            /\ \A owned \in HivesInOrder(query[r].user) :
                 scope[r] = ToSet(Part(owned, 0, (page[r] - 1) * HivePage))
       /\ pc[r] = "page" => total[r] = Cardinality(Selected(r))
       /\ pc[r] \in {"count", "page"} /\ query[r].op = "report" =>
            \A s \in Ordered(rows, {}, Selected(r)) :
              all[r] = Part(s, 0, (page[r] - 1) * MaxLimit)

\* While table and hives stay, so does what is true of what it holds.
LEMMA UndisturbedKept ==
  ASSUME NEW r \in Readers, Undisturbed(r), UNCHANGED <<rows, alive, Held(r)>>
  PROVE  Undisturbed(r)'
<1>1. /\ pc'[r] = pc[r] /\ query'[r] = query[r] /\ scope'[r] = scope[r]
      /\ page'[r] = page[r] /\ total'[r] = total[r] /\ all'[r] = all[r]
      /\ quiet'[r] = quiet[r] /\ rows' = rows /\ alive' = alive
  BY DEF Held
<1>2. Selected(r)' = Selected(r)
  BY <1>1 DEF Selected
<1>3. \A q : HivesAsked(q)' = HivesAsked(q)
  BY <1>1 DEF HivesAsked, OwnedHives
<1>4. \A u : HivesInOrder(u)' = HivesInOrder(u)
  BY <1>1 DEF HivesInOrder, OwnedHives
<1> QED
  BY <1>1, <1>2, <1>3, <1>4 DEF Undisturbed

\* An answer leaves nothing to hold.
LEMMA UndisturbedAnswer ==
  ASSUME Asking, NEW r \in Readers, NEW code, NEW items, NEW count,
         Answer(r, code, items, count)
  PROVE  Undisturbed(r)'
<1>1. pc'[r] = "idle" /\ all'[r] = <<>> /\ quiet'[r] = FALSE
  BY DEF Answer, GoTo, Asking
<1> QED
  BY <1>1 DEF Undisturbed

\* A writer disturbs every request.
LEMMA UndisturbedWrite ==
  ASSUME Asking, NEW r \in Readers, Undisturbed(r), Write
  PROVE  Undisturbed(r)'
<1>1. Noticed
  BY DEF Write, Inserts, Updates, Deletes, HiveDies
<1>2. pc' = pc /\ query' = query /\ all' = all /\ quiet'[r] = FALSE
  BY <1>1 DEF Noticed
<1> QED
  BY <1>2 DEF Undisturbed

\* What a request has asked for is selected, in one of the orders, as it is
\* documented.
LEMMA SelectedAreWanted ==
  ASSUME Asking, Stored, NEW r \in Readers, Undisturbed(r), pc[r] \in {"count", "page"}
  PROVE  /\ Listable({}, Selected(r))
         /\ query[r].op # "report" => Listable(query[r].order, Selected(r))
         /\ quiet[r] => Selected(r) = Wanted(query[r])
<1> DEFINE q == query[r]
<1>1. q \in Queries /\ IsQuery(q) /\ ~Malformed(q)
  BY ListingQueries DEF Asking, Undisturbed
<1>2. Selected(r) \subseteq HarvestIds /\ \A id \in Selected(r) : rows[id] # Null
  BY DEF Selected, Matches
<1>3. Listable({}, Selected(r))
  BY <1>2 DEF Listable
<1>4. q.op # "report" => Listable(q.order, Selected(r))
  <2> SUFFICES ASSUME q.op # "report" PROVE Listable(q.order, Selected(r))
    OBVIOUS
  <2>1. ListErrors(q) = {}
    BY <1>1 DEF Malformed
  <2>2. Wrong(q.order \ SortOrders # {}, "sortOrder", "invalid_sort_order") = {}
    BY <2>1 DEF ListErrors
  <2>3. q.order \subseteq SortOrders
    BY <2>2 DEF Wrong
  <2>4. \A x, y \in q.order : x = y
    BY <1>1 DEF IsQuery
  <2> QED
    BY <1>2, <2>3, <2>4 DEF Listable
<1>5. (\A t \in q.from \cup q.to : OnCalendar(t)) /\ q.operator \subseteq Operators
  <2>1. CASE q.op = "report"
    BY <1>1, <2>1, ReportEnds DEF Malformed, IsQuery
  <2>2. CASE q.op # "report"
    BY <1>1, <2>2, AcceptedListDays DEF Malformed
  <2> QED
    BY <2>1, <2>2
<1>6. ASSUME NEW id \in HarvestIds, rows[id] # Null
      PROVE  Selects(Filter(q), rows[id].body) <=> AsksFor(q, rows[id].body)
  <2>1. rows[id] \in Rows
    BY <1>6 DEF Stored
  <2>2. rows[id].body \in Bodies
    BY <2>1 DEF Rows
  <2>3. OnCalendar(rows[id].body.date)
    BY <2>2, ListingConstants
  <2> QED
    BY <1>5, <2>3, SelectedAsAsked
<1>7. quiet[r] => Selected(r) = Wanted(q)
  <2> SUFFICES ASSUME quiet[r] PROVE Selected(r) = Wanted(q)
    OBVIOUS
  <2>1. scope[r] = HivesAsked(q)
    BY DEF Undisturbed
  <2> QED
    BY <1>6, <2>1 DEF Selected, Matches, Wanted
<1> QED
  BY <1>3, <1>4, <1>7

\* Nothing is held at first.
LEMMA UndisturbedAtFirst ==
  ASSUME NEW r \in Readers, NEW q \in Queries, Asking, Stored, Undisturbed(r), Ask(r, q)
  PROVE  Undisturbed(r)'
<1>1. pc[r] = "idle" /\ all[r] = <<>> /\ UNCHANGED <<rows, alive, total, all>>
  BY DEF Ask, Undisturbed
<1>2. CASE Malformed(q)
  <2>1. pc' = pc /\ quiet' = quiet /\ all' = all
    BY <1>2 DEF Ask
  <2> QED
    BY <1>1, <2>1 DEF Undisturbed
<1>3. CASE ~Malformed(q)
  <2>1. q.op \in {"list", "listall", "report"}
    BY ListingQueries DEF IsQuery
  <2>2. /\ query'[r] = q /\ page'[r] = 1 /\ quiet'[r] = TRUE /\ all'[r] = <<>>
        /\ pc'[r] = CASE q.op = "list"    -> "verify"
                      [] q.op = "listall" -> "hives"
                      [] q.op = "report"  -> "count"
        /\ scope'[r] = IF q.op = "listall" THEN {} ELSE {q.hive}
    BY <1>1, <1>3 DEF Ask, GoTo, Asking
  <2>3. (page'[r] - 1) * HivePage = 0 /\ (page'[r] - 1) * MaxLimit = 0
    BY <2>2, ListingConstants
  <2>4. ASSUME NEW S, NEW s \in Seq(S)
        PROVE  Part(s, 0, 0) = <<>>
    <3>1. Len(s) \in Nat
      OBVIOUS
    <3>2. Part(s, 0, 0) \in Seq(S) /\ Len(Part(s, 0, 0)) = 0
      BY <3>1, PartItems
    <3> QED
      BY <3>2, EmptySeq
  <2>5. \A owned \in HivesInOrder(q.user)' : ToSet(Part(owned, 0, 0)) = {}
    <3>1. HivesInOrder(q.user)' = HivesInOrder(q.user)
      BY <1>1 DEF HivesInOrder, OwnedHives
    <3>2. ASSUME NEW owned \in HivesInOrder(q.user)
          PROVE  ToSet(Part(owned, 0, 0)) = {}
      <4>1. Part(owned, 0, 0) = <<>>
        BY <2>4, OwnedList
      <4> QED
        BY <4>1 DEF ToSet
    <3> QED
      BY <3>1, <3>2
  <2>6. \A s \in Ordered(rows, {}, Selected(r))' : Part(s, 0, 0) = <<>>
    <3> SUFFICES ASSUME NEW s \in Ordered(rows, {}, Selected(r))'
                 PROVE  Part(s, 0, 0) = <<>>
      OBVIOUS
    <3>1. IsFiniteSet(Selected(r)')
      <4>1. Selected(r)' \subseteq HarvestIds
        BY DEF Selected, Matches
      <4> QED
        BY <4>1, ListingConstants, FS_Subset
    <3>2. s \in Seq(Selected(r)')
      BY <3>1, OrdersAreSequences DEF Ordered
    <3> QED
      BY <2>4, <3>2
  <2>7. HivesAsked(q)' = IF q.op = "listall" THEN OwnedHives(q.user) ELSE {q.hive}
    BY <1>1 DEF HivesAsked, OwnedHives
  <2>8. /\ q.op = "list" => pc'[r] = "verify" /\ scope'[r] = {q.hive}
        /\ q.op = "listall" => pc'[r] = "hives" /\ scope'[r] = {}
        /\ q.op = "report" => pc'[r] = "count" /\ scope'[r] = {q.hive}
    BY <2>2
  <2> QED
    BY <1>3, <2>1, <2>2, <2>3, <2>5, <2>6, <2>7, <2>8 DEF Undisturbed
<1> QED
  BY <1>2, <1>3

\* One page more of the list of hives, and the last of them.
LEMMA HivesGathered ==
  ASSUME Stored, NEW u, NEW owned \in HivesInOrder(u), NEW n \in Nat \ {0}
  PROVE  /\ ToSet(Part(owned, 0, (n - 1) * HivePage)) \cup ToSet(PageOf(owned, n, HivePage))
              = ToSet(Part(owned, 0, n * HivePage))
         /\ n * HivePage >= Len(owned) \/ PageOf(owned, n, HivePage) = <<>> =>
              ToSet(Part(owned, 0, n * HivePage)) = OwnedHives(u)
<1> DEFINE S == OwnedHives(u)
           a == (n - 1) * HivePage
           b == n * HivePage
<1>1. HivePage \in Nat \ {0}
  BY ListingConstants
<1>2. PageOf(owned, n, HivePage) = Part(owned, a, b) /\ a \in Nat /\ b \in Nat /\ b = a + HivePage
  BY <1>1, PageIsPart
<1> HIDE DEF a, b
<1>3. a <= b /\ a < b
  BY <1>1, <1>2
<1>4. owned \in Seq(S) /\ ToSet(owned) = S /\ Len(owned) \in Nat /\ DOMAIN owned = 1..Len(owned)
  BY OwnedList
<1> HIDE DEF S
<1>5. ToSet(Part(owned, 0, a)) \cup ToSet(Part(owned, a, b)) = ToSet(Part(owned, 0, b))
  <2> DEFINE x == Part(owned, 0, a)
             y == Part(owned, a, b)
  <2>1. x \in Seq(S) /\ y \in Seq(S)
    BY <1>2, <1>3, <1>4, PartItems
  <2>2. x \o y = Part(owned, 0, b)
    BY <1>2, <1>3, <1>4, PartsJoin
  <2> HIDE DEF x, y
  <2>3. ToSet(x \o y) = ToSet(x) \cup ToSet(y)
    <3>1. /\ Len(x) \in Nat /\ DOMAIN x = 1..Len(x)
          /\ Len(y) \in Nat /\ DOMAIN y = 1..Len(y)
      BY <2>1
    <3>2. /\ x \o y \in Seq(S) /\ Len(x \o y) = Len(x) + Len(y)
          /\ \A i \in 1..(Len(x) + Len(y)) :
               (x \o y)[i] = IF i <= Len(x) THEN x[i] ELSE y[i - Len(x)]
      BY <2>1, ConcatProperties
    <3>3. DOMAIN (x \o y) = 1..(Len(x) + Len(y))
      BY <3>2
    <3>4. ASSUME NEW i \in 1..Len(x)
          PROVE  i \in 1..(Len(x) + Len(y)) /\ (x \o y)[i] = x[i]
      BY <3>1, <3>2
    <3>5. ASSUME NEW i \in 1..Len(y)
          PROVE  Len(x) + i \in 1..(Len(x) + Len(y)) /\ (x \o y)[Len(x) + i] = y[i]
      <4>1. /\ Len(x) + i \in 1..(Len(x) + Len(y)) /\ ~(Len(x) + i <= Len(x))
            /\ (Len(x) + i) - Len(x) = i
        BY <3>1
      <4> QED
        BY <3>2, <4>1
    <3>6. ASSUME NEW i \in 1..(Len(x) + Len(y))
          PROVE  \/ \E j \in 1..Len(x) : (x \o y)[i] = x[j]
                 \/ \E j \in 1..Len(y) : (x \o y)[i] = y[j]
      <4>1. CASE i <= Len(x)
        BY <3>1, <3>2, <4>1
      <4>2. CASE ~(i <= Len(x))
        <5>1. i - Len(x) \in 1..Len(y)
          BY <3>1, <4>2
        <5> QED
          BY <3>2, <4>2, <5>1
      <4> QED
        BY <4>1, <4>2
    <3>7. /\ ToSet(x) = {x[i] : i \in 1..Len(x)} /\ ToSet(y) = {y[i] : i \in 1..Len(y)}
          /\ ToSet(x \o y) = {(x \o y)[i] : i \in 1..(Len(x) + Len(y))}
      BY <3>1, <3>3 DEF ToSet
    <3>8. ASSUME NEW v \in ToSet(x \o y) PROVE v \in ToSet(x) \cup ToSet(y)
      <4>1. PICK i \in 1..(Len(x) + Len(y)) : v = (x \o y)[i]
        BY <3>7, Zenon
      <4> QED
        BY <3>6, <3>7, <4>1
    <3>9. ASSUME NEW v \in ToSet(x) PROVE v \in ToSet(x \o y)
      <4>1. PICK i \in 1..Len(x) : v = x[i]
        BY <3>7, Zenon
      <4> QED
        BY <3>4, <3>7, <4>1
    <3>10. ASSUME NEW v \in ToSet(y) PROVE v \in ToSet(x \o y)
      <4>1. PICK i \in 1..Len(y) : v = y[i]
        BY <3>7, Zenon
      <4> QED
        BY <3>5, <3>7, <4>1
    <3> QED
      BY <3>8, <3>9, <3>10
  <2> QED
    BY <2>2, <2>3 DEF x, y
<1>6. ASSUME b >= Len(owned) \/ Part(owned, a, b) = <<>>
      PROVE  ToSet(Part(owned, 0, b)) = S
  <2>1. b >= Len(owned)
    <3>1. CASE Part(owned, a, b) = <<>>
      <4>1. Len(Part(owned, a, b)) = 0
        BY <3>1
      <4>2. Len(Part(owned, a, b)) = IF b <= Len(owned) THEN b - a
                                     ELSE IF a <= Len(owned) THEN Len(owned) - a ELSE 0
        BY <1>2, <1>3, <1>4, PartItems
      <4> QED
        BY <1>2, <1>3, <1>4, <4>1, <4>2
    <3> QED
      BY <1>6, <3>1
  <2>2. Part(owned, 0, b) = owned
    <3> DEFINE z == Part(owned, 0, b)
    <3>1. /\ z \in Seq(S)
          /\ Len(z) = IF b <= Len(owned) THEN b - 0
                      ELSE IF 0 <= Len(owned) THEN Len(owned) - 0 ELSE 0
          /\ \A k \in 1..Len(z) : z[k] = owned[0 + k]
      BY <1>2, <1>4, PartItems
    <3> HIDE DEF z
    <3>2. Len(z) = Len(owned)
      BY <1>2, <1>4, <2>1, <3>1
    <3>3. \A k \in 1..Len(z) : z[k] = owned[k]
      <4>1. \A k \in 1..Len(z) : 0 + k = k
        BY <1>4, <3>2
      <4> QED
        BY <3>1, <4>1
    <3>4. z = owned
      BY <1>4, <3>1, <3>2, <3>3, SeqEqual
    <3> QED
      BY <3>4 DEF z
  <2> QED
    BY <1>4, <2>2
<1> QED
  BY <1>2, <1>5, <1>6 DEF a, b, S

\* One page more of a report.
LEMMA ReportGathered ==
  ASSUME Stored, NEW ids, Listable({}, ids), NEW s \in Ordered(rows, {}, ids),
         NEW n \in Nat \ {0}
  PROVE  Part(s, 0, (n - 1) * MaxLimit) \o PageOf(s, n, MaxLimit) = Part(s, 0, n * MaxLimit)
<1>1. MaxLimit \in Nat \ {0} /\ s \in Seq(ids)
  BY ListingConstants, ListingRanks
<1>2. /\ PageOf(s, n, MaxLimit) = Part(s, (n - 1) * MaxLimit, n * MaxLimit)
      /\ (n - 1) * MaxLimit \in Nat /\ n * MaxLimit \in Nat
      /\ n * MaxLimit = (n - 1) * MaxLimit + MaxLimit
  BY <1>1, PageIsPart
<1> DEFINE a == (n - 1) * MaxLimit
           b == n * MaxLimit
<1> HIDE DEF a, b
<1>3. a \in Nat /\ b \in Nat /\ a <= b /\ PageOf(s, n, MaxLimit) = Part(s, a, b)
  BY <1>1, <1>2 DEF a, b
<1>4. Part(s, 0, a) \o PageOf(s, n, MaxLimit) = Part(s, 0, b)
  BY <1>1, <1>3, PartsJoin
<1> QED
  BY <1>4 DEF a, b

\* A request keeps what is true of what it holds as it goes on.
LEMMA UndisturbedWork ==
  ASSUME Asking, Stored, Scoped, NEW r \in Readers, Undisturbed(r), Work(r)
  PROVE  Undisturbed(r)'
<1>1. rows' = rows /\ alive' = alive
  BY DEF Work, Verify, ListOwned, Count, Page, ReportPage, CallFails
<1>2. /\ \A q : HivesAsked(q)' = HivesAsked(q)
      /\ \A u : HivesInOrder(u)' = HivesInOrder(u)
  BY <1>1 DEF HivesAsked, HivesInOrder, OwnedHives
<1>3. ASSUME NEW code, NEW items, NEW count, Answer(r, code, items, count)
      PROVE  Undisturbed(r)'
  BY <1>3, UndisturbedAnswer
<1>4. CASE Verify(r)
  <2>1. CASE GoTo(r, "count") /\ UNCHANGED <<query, scope, page, total, all, reply, quiet>>
    <3>1. pc[r] = "verify" /\ pc'[r] = "count"
      BY <1>4, <2>1 DEF Verify, GoTo, Asking
    <3>2. query[r].op # "report"
      BY <3>1 DEF Scoped
    <3> QED
      BY <1>2, <2>1, <3>1, <3>2 DEF Undisturbed
  <2> QED
    BY <1>3, <1>4, <2>1 DEF Verify
<1>5. CASE ListOwned(r)
  <2> DEFINE u == query[r].user
             n == page[r]
  <2>1. PICK owned \in HivesInOrder(u) :
          LET items == PageOf(owned, n, HivePage) IN
          /\ scope' = [scope EXCEPT ![r] = @ \cup ToSet(items)]
          /\ IF n * HivePage >= Len(owned) \/ items = <<>>
             THEN GoTo(r, "count") /\ UNCHANGED page
             ELSE page' = [page EXCEPT ![r] = @ + 1] /\ UNCHANGED pc
    BY <1>5 DEF ListOwned
  <2>2. pc[r] = "hives" /\ UNCHANGED <<query, total, all, reply, quiet>> /\ n \in Nat \ {0}
    BY <1>5 DEF ListOwned, Asking
  <2>3. scope'[r] = scope[r] \cup ToSet(PageOf(owned, n, HivePage))
    BY <2>1 DEF Asking
  <2>4. ASSUME quiet[r]
        PROVE  /\ query[r].op = "listall"
               /\ scope'[r] = ToSet(Part(owned, 0, n * HivePage))
               /\ n * HivePage >= Len(owned) \/ PageOf(owned, n, HivePage) = <<>> =>
                    scope'[r] = OwnedHives(u)
    <3>1. query[r].op = "listall" /\ scope[r] = ToSet(Part(owned, 0, (n - 1) * HivePage))
      BY <2>2, <2>4 DEF Undisturbed
    <3>2. /\ ToSet(Part(owned, 0, (n - 1) * HivePage)) \cup ToSet(PageOf(owned, n, HivePage))
               = ToSet(Part(owned, 0, n * HivePage))
          /\ n * HivePage >= Len(owned) \/ PageOf(owned, n, HivePage) = <<>> =>
               ToSet(Part(owned, 0, n * HivePage)) = OwnedHives(u)
      BY <2>2, HivesGathered
    <3> QED
      BY <2>3, <3>1, <3>2
  <2>5. \A other \in HivesInOrder(u) : other = owned
    BY OwnedList
  <2>6. CASE n * HivePage >= Len(owned) \/ PageOf(owned, n, HivePage) = <<>>
    <3>1. pc'[r] = "count"
      BY <2>1, <2>6 DEF GoTo, Asking
    <3>2. quiet[r] => query[r].op = "listall" /\ scope'[r] = HivesAsked(query[r])
      BY <2>4, <2>6 DEF HivesAsked
    <3> QED
      BY <1>2, <2>2, <3>1, <3>2 DEF Undisturbed
  <2>7. CASE ~(n * HivePage >= Len(owned) \/ PageOf(owned, n, HivePage) = <<>>)
    <3>1. pc' = pc /\ page' = [page EXCEPT ![r] = @ + 1]
      BY <2>1, <2>7
    <3>2. page'[r] = n + 1
      BY <3>1 DEF Asking
    <3>3. page'[r] - 1 = n
      BY <2>2, <3>2
    <3>4. quiet[r] => \A other \in HivesInOrder(u) :
                        scope'[r] = ToSet(Part(other, 0, (page'[r] - 1) * HivePage))
      BY <2>4, <2>5, <3>3
    <3> QED
      BY <1>2, <2>2, <2>4, <3>1, <3>4 DEF Undisturbed
  <2> QED
    BY <2>6, <2>7
<1>6. CASE Count(r)
  <2>1. /\ pc[r] = "count" /\ pc'[r] = "page" /\ total'[r] = Cardinality(Selected(r))
        /\ UNCHANGED <<rows, query, scope, page, all, quiet>>
    BY <1>6 DEF Count, GoTo, Asking
  <2>2. Selected(r)' = Selected(r)
    BY <2>1 DEF Selected
  <2> QED
    BY <1>2, <2>1, <2>2 DEF Undisturbed
<1>7. CASE ReportPage(r)
  <2>1. PICK s \in Ordered(rows, {}, Selected(r)) :
          LET gathered == all[r] \o PageOf(s, page[r], MaxLimit) IN
          \/ Answer(r, "ok", gathered, Len(gathered))
          \/ /\ all' = [all EXCEPT ![r] = gathered]
             /\ page' = [page EXCEPT ![r] = @ + 1]
             /\ GoTo(r, "count")
             /\ UNCHANGED <<query, scope, total, reply, quiet>>
    BY <1>7 DEF ReportPage
  <2> DEFINE gathered == all[r] \o PageOf(s, page[r], MaxLimit)
  <2>2. CASE Answer(r, "ok", gathered, Len(gathered))
    BY <1>3, <2>2
  <2>3. CASE /\ all' = [all EXCEPT ![r] = gathered]
             /\ page' = [page EXCEPT ![r] = @ + 1]
             /\ GoTo(r, "count")
             /\ UNCHANGED <<query, scope, total, reply, quiet>>
    <3>1. pc[r] = "page" /\ query[r].op = "report" /\ page[r] \in Nat \ {0}
      BY <1>7 DEF ReportPage, Asking
    <3>2. pc'[r] = "count" /\ all'[r] = gathered /\ page'[r] = page[r] + 1
      BY <2>3 DEF GoTo, Asking
    <3>3. page'[r] - 1 = page[r]
      BY <3>1, <3>2
    <3>4. Listable({}, Selected(r))
      BY <3>1, SelectedAreWanted
    <3>5. quiet[r] => gathered = Part(s, 0, page[r] * MaxLimit)
      BY <3>1, <3>4, ReportGathered DEF Undisturbed
    <3>6. \A t \in Ordered(rows, {}, Selected(r)) : t = s
      BY <3>4, ListingRanks
    <3>7. Selected(r)' = Selected(r)
      BY <1>1, <2>3 DEF Selected
    <3> HIDE DEF gathered
    <3>8. quiet[r] => \A t \in Ordered(rows, {}, Selected(r)) :
                        all'[r] = Part(t, 0, (page'[r] - 1) * MaxLimit)
      BY <3>2, <3>3, <3>5, <3>6
    <3> QED
      BY <1>1, <1>2, <2>3, <3>1, <3>2, <3>7, <3>8 DEF Undisturbed
  <2> QED
    BY <2>1, <2>2, <2>3
<1>8. CASE Page(r) \/ CallFails(r)
  BY <1>3, <1>8 DEF Page, CallFails
<1> QED
  BY <1>4, <1>5, <1>6, <1>7, <1>8 DEF Work

\* Together: what is true of what the requests hold stays so.
LEMMA UndisturbedStep ==
  ASSUME Asking, Stored, Scoped, \A r \in Readers : Undisturbed(r), [Next]_vars
  PROVE  \A r \in Readers : Undisturbed(r)'
<1> SUFFICES ASSUME NEW r \in Readers PROVE Undisturbed(r)'
  OBVIOUS
<1>1. CASE \E x \in Readers : x # r /\ (Work(x) \/ \E q \in Queries : Ask(x, q))
  <2>1. UNCHANGED <<rows, alive, Held(r)>>
    BY <1>1, OthersApart
  <2> QED
    BY <2>1, UndisturbedKept
<1>2. CASE Work(r)
  BY <1>2, UndisturbedWork
<1>3. CASE \E q \in Queries : Ask(r, q)
  BY <1>3, UndisturbedAtFirst
<1>4. CASE Write
  BY <1>4, UndisturbedWrite
<1>5. CASE UNCHANGED vars
  <2>1. UNCHANGED <<rows, alive, Held(r)>>
    BY <1>5 DEF vars, asking, Held
  <2> QED
    BY <2>1, UndisturbedKept
<1> QED
  BY <1>1, <1>2, <1>3, <1>4, <1>5 DEF Next

\* The table, the requests and what they hold.
Listing == Asking /\ Stored /\ Scoped /\ \A r \in Readers : Undisturbed(r)

\* Every state of the listings has it.
LEMMA ListingInvariant ==
  /\ Init => Listing
  /\ Listing /\ [Next]_vars => Listing'
<1>1. Init => Listing
  <2>1. Init => Scoped
    BY DEF Init, Scoped
  <2>2. Init => \A r \in Readers : Undisturbed(r)
    BY DEF Init, Undisturbed
  <2> QED
    BY <2>1, <2>2, TypedInit DEF Listing
<1>2. Listing /\ [Next]_vars => Listing'
  BY WorkTyped, OthersTyped, ScopedStep, UndisturbedStep DEF Next, Listing
<1> QED
  BY <1>1, <1>2

\* A page of a list nobody disturbs holds its share of the records the
\* filters ask for, in the order asked for, and the right total, for any
\* table, limit and number of pages.
THEOREM PagesExactWhenQuiet == Spec => PageExactWhenQuiet
<1>1. ASSUME Listing, [Next]_vars, NEW r \in Readers,
             AnsweredUndisturbed(r), query[r].op # "report"
      PROVE  LET q == query[r] IN
             /\ Exactly(reply'[r].items, Wanted(q), q.order, (q.page - 1) * q.limit, q.page * q.limit)
             /\ reply'[r].total = Cardinality(Wanted(q))
  <2> DEFINE q == query[r]
  <2>1. pc[r] = "page" /\ quiet[r] /\ Page(r)
    BY <1>1, OkAnswers DEF AnsweredUndisturbed, Listing
  <2>2. PICK s \in Ordered(rows, q.order, Selected(r)) :
          Answer(r, "ok", PageOf(s, q.page, q.limit), total[r])
    BY <2>1 DEF Page
  <2>3. reply'[r].items = PageOf(s, q.page, q.limit) /\ reply'[r].total = total[r]
    BY <1>1, <2>2, AnswerSays DEF Listing
  <2>4. Listable(q.order, Selected(r)) /\ Selected(r) = Wanted(q)
    BY <1>1, <2>1, SelectedAreWanted DEF Listing
  <2>5. total[r] = Cardinality(Wanted(q))
    BY <1>1, <2>1, <2>4 DEF Listing, Undisturbed
  <2>6. q.page \in Nat \ {0} /\ q.limit \in Nat \ {0}
    BY <1>1, <2>1, ListingQueries DEF Listing, Asking, IsQuery
  <2> DEFINE a == (q.page - 1) * q.limit
             b == q.page * q.limit
  <2>7. PageOf(s, q.page, q.limit) = Part(s, a, b) /\ a \in Nat /\ b \in Nat /\ b = a + q.limit
    BY <2>6, PageIsPart
  <2>8. Exactly(Part(s, a, b), Selected(r), q.order, a, b)
    <3> HIDE DEF a, b
    <3>1. a <= b
      BY <2>6, <2>7
    <3> QED
      BY <1>1, <2>4, <2>7, <3>1, PartIsExact DEF Listing
  <2>9. Exactly(reply'[r].items, Wanted(q), q.order, a, b)
    <3> HIDE DEF a, b, q
    <3> QED
      BY <2>3, <2>4, <2>7, <2>8
  <2> QED
    BY <2>3, <2>5, <2>9
<1>2. Listing /\ [Next]_vars =>
        [\A r \in Readers : LET q == query[r] IN
           AnsweredUndisturbed(r) /\ q.op # "report" =>
             /\ Exactly(reply'[r].items, Wanted(q), q.order, (q.page - 1) * q.limit, q.page * q.limit)
             /\ reply'[r].total = Cardinality(Wanted(q))]_vars
  BY <1>1
<1> QED
  BY <1>2, ListingInvariant, PTL DEF Spec, PageExactWhenQuiet

\* A report nobody disturbs holds each record of its hive and its days once
\* and in order, for any table and any number of pages.
THEOREM ReportsExactWhenQuiet == Spec => ReportExactWhenQuiet
<1>1. ASSUME Listing, [Next]_vars, NEW r \in Readers,
             AnsweredUndisturbed(r), query[r].op = "report"
      PROVE  LET q == query[r] IN
             Exactly(reply'[r].items, Wanted(q), {}, 0, Cardinality(Wanted(q)))
  <2> DEFINE q == query[r]
             n == page[r]
             ids == Selected(r)
             size == Cardinality(ids)
  <2>1. pc[r] = "page" /\ quiet[r] /\ ReportPage(r) /\ n \in Nat \ {0}
    BY <1>1, OkAnswers DEF AnsweredUndisturbed, Listing, Asking
  <2>2. PICK s \in Ordered(rows, {}, ids) :
          LET items == PageOf(s, n, MaxLimit)
              gathered == all[r] \o items
          IN
          \/ (Len(gathered) >= total[r] \/ items = <<>>) /\ Answer(r, "ok", gathered, Len(gathered))
          \/ UNCHANGED reply
    BY <2>1 DEF ReportPage
  <2> DEFINE items == PageOf(s, n, MaxLimit)
             gathered == all[r] \o items
             a == (n - 1) * MaxLimit
             b == n * MaxLimit
  <2>3. (Len(gathered) >= total[r] \/ items = <<>>) /\ Answer(r, "ok", gathered, Len(gathered))
    <3>1. reply'[r].code = "ok" /\ reply[r].code # "ok"
      BY <1>1, <2>1 DEF AnsweredUndisturbed, Listing, Scoped
    <3> QED
      BY <2>2, <3>1
  <2>4. Listable({}, ids) /\ ids = Wanted(q)
    BY <1>1, <2>1, SelectedAreWanted DEF Listing
  <2>5. total[r] = size /\ all[r] = Part(s, 0, a)
    BY <1>1, <2>1 DEF Listing, Undisturbed
  <2>6. s \in Seq(ids) /\ Len(s) = size /\ size \in Nat
    BY <1>1, <2>4, ListingRanks DEF Listing
  <2>7. gathered = Part(s, 0, b)
    BY <1>1, <2>1, <2>4, <2>5, ReportGathered DEF Listing
  <2>8. /\ MaxLimit \in Nat \ {0} /\ a \in Nat /\ b \in Nat /\ b = a + MaxLimit
        /\ items = Part(s, a, b)
    BY <2>1, ListingConstants, PageIsPart
  <2>9. reply'[r].items = gathered
    BY <1>1, <2>3, AnswerSays DEF Listing
  <2> HIDE DEF a, b, items, gathered, size, ids, q, n
  <2>10. b >= size
    <3>1. CASE Len(gathered) >= total[r]
      <4>1. Len(gathered) = IF b <= Len(s) THEN b - 0
                            ELSE IF 0 <= Len(s) THEN Len(s) - 0 ELSE 0
        BY <2>6, <2>7, <2>8, PartItems
      <4> QED
        BY <2>5, <2>6, <2>8, <3>1, <4>1
    <3>2. CASE items = <<>>
      <4>1. a <= b /\ a < b
        BY <2>8
      <4>2. Len(items) = IF b <= Len(s) THEN b - a
                         ELSE IF a <= Len(s) THEN Len(s) - a ELSE 0
        BY <2>6, <2>8, <4>1, PartItems
      <4>3. Len(items) = 0
        BY <3>2
      <4> QED
        BY <2>6, <2>8, <4>1, <4>2, <4>3
    <3> QED
      BY <2>3, <3>1, <3>2 DEF gathered, items
  <2>11. gathered = Part(s, 0, size)
    <3>1. Min({b, Len(s)}) = Len(s) /\ Min({size, Len(s)}) = Len(s)
      <4>1. b \in Int /\ size \in Int /\ Len(s) \in Int /\ Len(s) <= b /\ Len(s) <= size
        BY <2>6, <2>8, <2>10
      <4>2. /\ Min({b, Len(s)}) \in {b, Len(s)} /\ Min({b, Len(s)}) <= Len(s)
            /\ Min({size, Len(s)}) \in {size, Len(s)} /\ Min({size, Len(s)}) <= Len(s)
        BY <4>1, MinOfTwo
      <4> QED
        BY <4>1, <4>2
    <3> QED
      BY <2>7, <3>1 DEF Part
  <2>12. Exactly(Part(s, 0, size), ids, {}, 0, size)
    <3>1. 0 \in Nat /\ 0 <= size
      BY <2>6
    <3>2. s \in Ordered(rows, {}, ids) /\ Stored
      BY <1>1, <2>2 DEF Listing, ids
    <3> QED
      BY <2>4, <2>6, <3>1, <3>2, PartIsExact
  <2> QED
    BY <2>4, <2>9, <2>11, <2>12 DEF ids, size, q
<1>2. Listing /\ [Next]_vars =>
        [\A r \in Readers : LET q == query[r] IN
           AnsweredUndisturbed(r) /\ q.op = "report" =>
             Exactly(reply'[r].items, Wanted(q), {}, 0, Cardinality(Wanted(q)))]_vars
  BY <1>1
<1> QED
  BY <1>2, ListingInvariant, PTL DEF Spec, ReportExactWhenQuiet
=============================================================================
