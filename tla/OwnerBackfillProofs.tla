------------------------ MODULE OwnerBackfillProofs ------------------------
(***************************************************************************)
(* Proofs, for every number of jobs and rows and every batch size, that    *)
(* the backfill stamps rows with their owners, only adds, and skips none.  *)
(***************************************************************************)
EXTENDS OwnerBackfill, FiniteSetTheorems, WellFoundedInduction, TLAPS

\* A set of ids has a first one.
LEMMA FirstOf ==
  ASSUME NEW S, \A x \in S : x \in Nat, S # {}
  PROVE  \E x \in S : \A y \in S : x <= y
<1> DEFINE R == OpToRel(<, Nat)
<1>1. \E x \in S : \A y \in S : ~ (<<y, x>> \in R)
  <2> HIDE DEF R
  <2> QED BY WFMin, NatLessThanWellFounded DEF R
<1>2. \A x, y \in S : ~ (<<y, x>> \in R) => x <= y
  BY DEF OpToRel
<1> QED BY <1>1, <1>2

\* What a batch leaves out comes after all it holds.
LEMMA LowestFirst ==
  ASSUME NEW S, \A x \in S : x \in Nat, NEW n \in Nat \ {0}
  PROVE  /\ Lowest(S, n) \subseteq S
         /\ \A x \in Lowest(S, n), y \in S \ Lowest(S, n) : x < y
         /\ Lowest(S, n) = {} => S = {}
<1>0. \A x \in S : x \in Nat
  OBVIOUS
<1>1. \A x \in S : IsFiniteSet({z \in S : z < x}) /\ Cardinality({z \in S : z < x}) \in Nat
  <2> TAKE x \in S
  <2>1. IsFiniteSet(0..x)
    BY <1>0, FS_Interval
  <2>2. {z \in S : z < x} \subseteq 0..x
    BY <1>0
  <2>3. IsFiniteSet({z \in S : z < x})
    BY <2>1, <2>2, FS_Subset
  <2> QED BY <2>3, FS_CardinalityType
<1>2. ASSUME NEW x \in S, NEW y \in S, y <= x, x \in Lowest(S, n)
      PROVE  y \in Lowest(S, n)
  <2>1. {z \in S : z < y} \subseteq {z \in S : z < x}
    BY <1>0, <1>2
  <2>2. Cardinality({z \in S : z < y}) <= Cardinality({z \in S : z < x})
    BY <1>1, <2>1, FS_Subset
  <2>3. Cardinality({z \in S : z < x}) < n
    BY <1>2 DEF Lowest
  <2> QED BY <1>1, <2>2, <2>3 DEF Lowest
<1>3. ASSUME S # {} PROVE Lowest(S, n) # {}
  <2>1. PICK x \in S : \A y \in S : x <= y
    BY <1>3, FirstOf
  <2>2. {z \in S : z < x} = {}
    BY <1>0, <2>1
  <2>3. Cardinality({z \in S : z < x}) = 0
    BY <2>2, FS_EmptySet
  <2> QED BY <2>3 DEF Lowest
<1>4. Lowest(S, n) \subseteq S
  BY DEF Lowest
<1>5. \A x \in Lowest(S, n), y \in S \ Lowest(S, n) : x < y
  <2> TAKE x \in Lowest(S, n), y \in S \ Lowest(S, n)
  <2>1. x \in S /\ ~(y <= x)
    BY <1>2, <1>4
  <2> QED BY <1>0, <2>1
<1> QED BY <1>3, <1>4, <1>5

\* Ids are numbers.
LEMMA IdsAreNumbers == \A id \in HarvestIds : id \in Nat
  BY BackfillConstants

\* What a batch is: rows without an owner past the cursor, the first ones.
LEMMA BatchFirst ==
  ASSUME TypeOK, NEW j \in Jobs
  PROVE  /\ ListLegacy(j) \subseteq Legacy
         /\ \A id \in Legacy : after[j] < id =>
              id \in ListLegacy(j) \/ \A x \in ListLegacy(j) : x < id
         /\ ListLegacy(j) = {} => \A id \in Legacy : ~ (after[j] < id)
<1> DEFINE S == {id \in Legacy : id > after[j]}
<1>1. \A x \in S : x \in Nat
  BY IdsAreNumbers DEF Legacy
<1>2. Batch \in Nat \ {0}
  BY BackfillConstants
<1>3. /\ Lowest(S, Batch) \subseteq S
      /\ \A x \in Lowest(S, Batch), y \in S \ Lowest(S, Batch) : x < y
      /\ Lowest(S, Batch) = {} => S = {}
  <2> HIDE DEF S
  <2> QED BY <1>1, <1>2, LowestFirst
<1>4. ListLegacy(j) = Lowest(S, Batch)
  BY DEF ListLegacy
<1>5. after[j] \in Nat
  BY IdsAreNumbers DEF TypeOK
<1>6. \A id \in Legacy : after[j] < id => id \in S
  BY <1>5, IdsAreNumbers DEF Legacy
<1>7. \A id \in S : id \in Legacy
  OBVIOUS
<1> HIDE DEF S
<1> QED BY <1>3, <1>4, <1>6, <1>7

\* SetUserID leaves every other row alone, and a row that is gone or owned.
LEMMA SetUserIDRow ==
  ASSUME rows \in [HarvestIds -> [hive : HiveIds, user : Users \cup {Null}, body : {Null}] \cup {Null}],
         NEW r, r.id \in HarvestIds, NEW u \in Users \cup {Null}
  PROVE  /\ SetUserID(rows, r, u) \in [HarvestIds -> [hive : HiveIds, user : Users \cup {Null}, body : {Null}] \cup {Null}]
         /\ \A id \in HarvestIds :
              \/ SetUserID(rows, r, u)[id] = rows[id]
              \/ /\ id = r.id /\ rows[id] # Null /\ rows[id].user = Null
                 /\ SetUserID(rows, r, u)[id] = Row(rows[id].hive, u, rows[id].body)
<1>1. CASE rows[r.id] # Null /\ rows[r.id].user = Null
  BY <1>1 DEF SetUserID, Row
<1>2. CASE ~ (rows[r.id] # Null /\ rows[r.id].user = Null)
  BY <1>2 DEF SetUserID
<1> QED BY <1>1, <1>2

\* Every variable keeps its type, and a job writes only of a row it is at.
LEMMA TypedAlways == Spec => [](TypeOK /\ RowKnown)
<1>1. Init => TypeOK /\ RowKnown
  BY BackfillConstants DEF Init, TypeOK, RowKnown, Row
<1>2. TypeOK /\ RowKnown /\ [Next]_vars => TypeOK' /\ RowKnown'
  <2> SUFFICES ASSUME TypeOK, RowKnown, [Next]_vars PROVE TypeOK' /\ RowKnown'
    OBVIOUS
  <2> USE DEF TypeOK, RowKnown
  <2>1. ASSUME NEW j \in Jobs, Start(j) PROVE TypeOK' /\ RowKnown'
    BY <2>1 DEF Start, GoTo, Legacy
  <2>2. ASSUME NEW j \in Jobs, List(j) PROVE TypeOK' /\ RowKnown'
    <3>1. \A id \in ListLegacy(j) : id \in HarvestIds /\ rows[id].hive \in HiveIds
      <4>1. \A id \in ListLegacy(j) : id \in HarvestIds /\ rows[id] # Null
        BY BatchFirst DEF Legacy
      <4> QED BY <4>1
    <3> QED BY <2>2, <3>1 DEF List, GoTo
  <2>3. ASSUME NEW j \in Jobs, Lookup(j) PROVE TypeOK' /\ RowKnown'
    <3>1. PICK r \in page[j] : \E u \in AskOwner(j, r.hive) :
            /\ after' = [after EXCEPT ![j] = r.id]
            /\ page' = [page EXCEPT ![j] = @ \ {r}]
            /\ row' = [row EXCEPT ![j] = r]
            /\ tried' = [tried EXCEPT ![j] = @ \cup {r.id}]
            /\ owner' = [owner EXCEPT ![j] = u]
            /\ GoTo(j, IF u = Null THEN "record" ELSE "set")
      BY <2>3 DEF Lookup
    <3>2. r \in [id : HarvestIds, hive : HiveIds]
      OBVIOUS
    <3>3. AskOwner(j, r.hive) \subseteq Users \cup {Null}
      BY <3>2, BackfillConstants DEF AskOwner
    <3>4. r # Null
      BY <3>2, BackfillConstants
    <3>5. TypeOK'
      BY <2>3, <3>1, <3>2, <3>3 DEF Lookup, GoTo
    <3>6. RowKnown'
      BY <2>3, <3>1, <3>2, <3>4 DEF Lookup, GoTo
    <3> QED BY <3>5, <3>6
  <2>4. ASSUME NEW j \in Jobs, Set(j) PROVE TypeOK' /\ RowKnown'
    <3>1. /\ row[j] \in [id : HarvestIds, hive : HiveIds]
          /\ owner[j] \in Users \cup {Null}
      BY <2>4 DEF Set
    <3>2. rows' \in [HarvestIds -> [hive : HiveIds, user : Users \cup {Null}, body : {Null}] \cup {Null}]
      BY <2>4, <3>1, SetUserIDRow DEF Set
    <3> QED BY <2>4, <3>1, <3>2 DEF Set, Advance, GoTo
  <2>5. ASSUME NEW j \in Jobs, Record(j) PROVE TypeOK' /\ RowKnown'
    <3>1. row[j] \in [id : HarvestIds, hive : HiveIds]
      BY <2>5 DEF Record
    <3> QED BY <2>5, <3>1 DEF Record, Advance, GoTo
  <2>6. ASSUME NEW j \in Jobs, Kill(j) PROVE TypeOK' /\ RowKnown'
    BY <2>6 DEF Kill, GoTo
  <2>7. ASSUME NEW h \in HiveIds, ServiceDeletes(h) PROVE TypeOK' /\ RowKnown'
    BY <2>7 DEF ServiceDeletes, DeleteRows, job
  <2>8. ASSUME NEW h \in HiveIds, HiveDies(h) PROVE TypeOK' /\ RowKnown'
    BY <2>8 DEF HiveDies, job
  <2>9. ASSUME NEW u \in Users, ServiceErases(u) PROVE TypeOK' /\ RowKnown'
    BY <2>9 DEF ServiceErases, DeleteAllByUser, DeleteRows, job
  <2>10. CASE UNCHANGED vars
    BY <2>10 DEF vars, job
  <2> QED
    BY <2>1, <2>2, <2>3, <2>4, <2>5, <2>6, <2>7, <2>8, <2>9, <2>10
    DEF Next, Work, External
<1> QED BY <1>1, <1>2, PTL DEF Spec

\* Every variable keeps its type.
THEOREM BackfillTypes == Spec => []TypeOK
  BY TypedAlways, PTL

\* All a step can do to a row: nothing, delete it, or give it the owner that
\* the job at it was told.
LEMMA RowStep ==
  ASSUME TypeOK, RowKnown, [Next]_vars, NEW id \in HarvestIds
  PROVE  \/ rows'[id] = rows[id]
         \/ rows'[id] = Null
         \/ \E j \in Jobs :
              /\ pc[j] = "set" /\ row[j].id = id
              /\ rows[id] # Null /\ rows[id].user = Null
              /\ rows'[id] = Row(rows[id].hive, owner[j], rows[id].body)
<1>1. ASSUME NEW j \in Jobs, Start(j) \/ List(j) \/ Lookup(j) \/ Record(j) \/ Kill(j)
      PROVE  rows' = rows
  BY <1>1 DEF Start, List, Lookup, Record, Kill
<1>2. ASSUME NEW j \in Jobs, Set(j)
      PROVE  \/ rows'[id] = rows[id]
             \/ /\ pc[j] = "set" /\ row[j].id = id
                /\ rows[id] # Null /\ rows[id].user = Null
                /\ rows'[id] = Row(rows[id].hive, owner[j], rows[id].body)
  <2>1. row[j].id \in HarvestIds /\ owner[j] \in Users \cup {Null}
    BY <1>2 DEF Set, TypeOK, RowKnown
  <2>2. rows' = SetUserID(rows, row[j], owner[j]) \/ rows' = rows
    BY <1>2 DEF Set
  <2>3. rows \in [HarvestIds -> [hive : HiveIds, user : Users \cup {Null}, body : {Null}] \cup {Null}]
    BY DEF TypeOK
  <2> QED BY <1>2, <2>1, <2>2, <2>3, SetUserIDRow DEF Set
<1>3. ASSUME NEW h \in HiveIds, ServiceDeletes(h)
      PROVE  rows'[id] = rows[id] \/ rows'[id] = Null
  BY <1>3 DEF ServiceDeletes, DeleteRows, TypeOK
<1>4. ASSUME NEW u \in Users, ServiceErases(u)
      PROVE  rows'[id] = rows[id] \/ rows'[id] = Null
  BY <1>4 DEF ServiceErases, DeleteAllByUser, DeleteRows, TypeOK
<1>5. ASSUME NEW h \in HiveIds, HiveDies(h) PROVE rows' = rows
  BY <1>5 DEF HiveDies
<1>6. CASE UNCHANGED vars
  BY <1>6 DEF vars
<1> QED BY <1>1, <1>2, <1>3, <1>4, <1>5, <1>6 DEF Next, Work, External

\* The job only ever adds an owner (OnlyAddsOwners): SetUserID's WHERE holds
\* against everything that happens between ListLegacy and the UPDATE.
THEOREM OwnersOnlyAdded == Spec => OnlyAddsOwners
<1> DEFINE Adds == \A id \in HarvestIds : rows'[id] # rows[id] =>
       \/ rows'[id] = Null
       \/ rows[id] # Null /\ rows[id].user = Null /\ rows'[id].hive = rows[id].hive
<1>1. TypeOK /\ RowKnown /\ [Next]_vars => Adds
  <2> SUFFICES ASSUME TypeOK, RowKnown, [Next]_vars, NEW id \in HarvestIds,
                      rows'[id] # rows[id], rows'[id] # Null
               PROVE  rows[id] # Null /\ rows[id].user = Null /\ rows'[id].hive = rows[id].hive
    OBVIOUS
  <2>1. PICK j \in Jobs : /\ rows[id] # Null /\ rows[id].user = Null
                          /\ rows'[id] = Row(rows[id].hive, owner[j], rows[id].body)
    BY RowStep
  <2> QED BY <2>1 DEF Row
<1> QED BY <1>1, TypedAlways, PTL DEF Spec, OnlyAddsOwners

\* A row's hive never changes.
LEMMA HiveKept ==
  ASSUME TypeOK, RowKnown, [Next]_vars, NEW id \in HarvestIds, rows'[id] # Null
  PROVE  rows[id] # Null /\ rows'[id].hive = rows[id].hive
<1>1. CASE rows'[id] = rows[id]
  BY <1>1
<1>2. CASE \E j \in Jobs : /\ rows[id] # Null
                          /\ rows'[id] = Row(rows[id].hive, owner[j], rows[id].body)
  BY <1>2 DEF Row
<1> QED BY <1>1, <1>2, RowStep

\* What a job has listed of a row stays true of it, and the owner it is about
\* to write is the owner of that row's hive.
LEMMA AlwaysListedTruly == Spec => []ListedTruly
<1>1. Init => ListedTruly
  BY DEF Init, ListedTruly
<1>2. TypeOK /\ RowKnown /\ ListedTruly /\ [Next]_vars => ListedTruly'
  <2> SUFFICES ASSUME TypeOK, RowKnown, ListedTruly, [Next]_vars, NEW i \in Jobs
               PROVE  /\ \A q \in page'[i] : rows'[q.id] # Null => rows'[q.id].hive = q.hive
                      /\ pc'[i] = "set" =>
                           /\ owner'[i] = Owner[row'[i].hive]
                           /\ rows'[row'[i].id] # Null => rows'[row'[i].id].hive = row'[i].hive
    BY DEF ListedTruly
  <2>0. /\ \A q \in page[i] : q.id \in HarvestIds
        /\ pc[i] = "set" => row[i].id \in HarvestIds
    BY DEF TypeOK, RowKnown
  <2>1. CASE UNCHANGED <<pc[i], page[i], row[i], owner[i]>>
    BY <2>0, <2>1, HiveKept DEF ListedTruly
  <2>2. CASE pc'[i] # "set" /\ page'[i] \subseteq page[i]
    BY <2>0, <2>2, HiveKept DEF ListedTruly
  <2>3. CASE List(i)
    <3>1. \A id \in ListLegacy(i) : id \in HarvestIds
      BY BatchFirst DEF Legacy
    <3> QED BY <2>0, <2>3, <3>1, HiveKept DEF List, GoTo, TypeOK, ListedTruly
  <2>4. CASE Lookup(i)
    <3>1. PICK r \in page[i] : \E u \in AskOwner(i, r.hive) :
            /\ page' = [page EXCEPT ![i] = @ \ {r}]
            /\ row' = [row EXCEPT ![i] = r]
            /\ owner' = [owner EXCEPT ![i] = u]
            /\ GoTo(i, IF u = Null THEN "record" ELSE "set")
      BY <2>4 DEF Lookup
    <3>2. PICK u \in AskOwner(i, r.hive) :
            /\ page'[i] = page[i] \ {r}
            /\ row'[i] = r
            /\ owner'[i] = u
            /\ pc'[i] = IF u = Null THEN "record" ELSE "set"
      BY <3>1 DEF GoTo, TypeOK
    <3>3. u # Null => u = Owner[r.hive]
      BY DEF AskOwner
    <3> QED BY <2>0, <2>4, <3>2, <3>3, HiveKept DEF ListedTruly
  <2>5. ASSUME NEW j \in Jobs, j # i,
               Start(j) \/ List(j) \/ Lookup(j) \/ Set(j) \/ Record(j) \/ Kill(j)
        PROVE  UNCHANGED <<pc[i], page[i], row[i], owner[i]>>
    BY <2>5 DEF Start, List, Lookup, Set, Record, Kill, Advance, GoTo, TypeOK
  <2>6. CASE Start(i) \/ Set(i) \/ Record(i) \/ Kill(i)
    BY <2>2, <2>6 DEF Start, Set, Record, Kill, Advance, GoTo, TypeOK
  <2>7. CASE External \/ UNCHANGED vars
    BY <2>1, <2>7 DEF External, ServiceDeletes, ServiceErases, HiveDies, job, vars
  <2> QED BY <2>1, <2>3, <2>4, <2>5, <2>6, <2>7 DEF Next, Work
<1> QED BY <1>1, <1>2, TypedAlways, PTL DEF Spec

\* A row is stamped with the owner of its hive (StampedWithOwner), however
\* many jobs overlap.
THEOREM AlwaysStampedWithOwner == Spec => []StampedWithOwner
<1>1. Init => StampedWithOwner
  BY DEF Init, StampedWithOwner, Row
<1>2. TypeOK /\ RowKnown /\ ListedTruly /\ StampedWithOwner /\ [Next]_vars => StampedWithOwner'
  <2> SUFFICES ASSUME TypeOK, RowKnown, ListedTruly, StampedWithOwner, [Next]_vars,
                      NEW id \in HarvestIds, rows'[id] # Null
               PROVE  rows'[id].user \in {Null, Owner[rows'[id].hive]}
    BY DEF StampedWithOwner
  <2>1. CASE rows'[id] = rows[id]
    BY <2>1 DEF StampedWithOwner
  <2>2. ASSUME NEW j \in Jobs, pc[j] = "set", row[j].id = id, rows[id] # Null,
               rows'[id] = Row(rows[id].hive, owner[j], rows[id].body)
        PROVE  rows'[id].user = Owner[rows'[id].hive]
    BY <2>2 DEF ListedTruly, Row
  <2> QED BY <2>1, <2>2, RowStep
<1> QED BY <1>1, <1>2, TypedAlways, AlwaysListedTruly, PTL DEF Spec

\* No step takes an owner away from a row.
LEMMA LegacyShrinks ==
  ASSUME TypeOK, RowKnown, [Next]_vars
  PROVE  Legacy' \subseteq Legacy
  BY RowStep DEF Legacy, Row

\* The cursor leaves no row without an owner behind it unasked.
LEMMA CursorAlwaysCovers == Spec => []CursorCovers
<1>1. Init => CursorCovers
  BY DEF Init, CursorCovers
<1>2. TypeOK /\ RowKnown /\ CursorCovers /\ [Next]_vars => CursorCovers'
  <2> SUFFICES ASSUME TypeOK, RowKnown, CursorCovers, [Next]_vars, NEW i \in Jobs,
                      NEW id \in since'[i], id \in Legacy'
               PROVE  \/ pc'[i] = "stopped"
                      \/ id \in tried'[i]
                      \/ pc'[i] = "list" /\ after'[i] < id
                      \/ /\ pc'[i] \in {"lookup", "set", "record"}
                         /\ \/ \E q \in page'[i] : q.id = id
                            \/ after'[i] < id /\ \A q \in page'[i] : q.id < id
    BY DEF CursorCovers
  <2>0. id \in Legacy /\ id \in Nat
    BY LegacyShrinks, IdsAreNumbers DEF Legacy
  <2>1. CASE UNCHANGED <<pc[i], page[i], after[i], since[i], tried[i]>>
    BY <2>0, <2>1 DEF CursorCovers
  <2>2. CASE Start(i)
    BY <2>0, <2>2, BackfillConstants DEF Start, GoTo, TypeOK, Legacy
  <2>3. CASE List(i)
    <3>1. CASE pc'[i] = "stopped"
      BY <3>1
    <3>2. CASE pc'[i] = (IF ListLegacy(i) = {} THEN "done" ELSE "lookup")
               /\ page'[i] = {[id |-> x, hive |-> rows[x].hive] : x \in ListLegacy(i)}
      <4>1. /\ UNCHANGED <<after[i], tried[i], since[i]>>
            /\ id \in tried[i] \/ after[i] < id
        BY <2>0, <2>3 DEF List, CursorCovers
      <4>2. CASE ListLegacy(i) = {}
        BY <2>0, <4>1, <4>2, BatchFirst
      <4>3. CASE id \in ListLegacy(i)
        <5>1. [id |-> id, hive |-> rows[id].hive] \in page'[i]
          BY <3>2, <4>3
        <5>2. \E q \in page'[i] : q.id = id
          BY <5>1
        <5>3. pc'[i] = "lookup"
          BY <3>2, <4>3
        <5> QED BY <5>2, <5>3
      <4>4. CASE ListLegacy(i) # {} /\ id \notin ListLegacy(i)
        <5>1. after[i] < id => \A x \in ListLegacy(i) : x < id
          BY <2>0, <4>4, BatchFirst
        <5>2. \A q \in page'[i] : q.id \in ListLegacy(i)
          BY <3>2
        <5> QED BY <3>2, <4>1, <4>4, <5>1, <5>2
      <4> QED BY <4>2, <4>3, <4>4
    <3> QED BY <2>3, <3>1, <3>2 DEF List, GoTo, TypeOK
  <2>4. CASE Lookup(i)
    <3>1. PICK r \in page[i] :
            /\ after'[i] = r.id
            /\ page'[i] = page[i] \ {r}
            /\ tried'[i] = tried[i] \cup {r.id}
            /\ pc'[i] \in {"record", "set"}
            /\ since'[i] = since[i]
      BY <2>4 DEF Lookup, GoTo, TypeOK
    <3>2. \/ id \in tried[i]
          \/ \E q \in page[i] : q.id = id
          \/ \A q \in page[i] : q.id < id
      BY <2>0, <2>4, <3>1 DEF Lookup, CursorCovers
    <3> QED BY <3>1, <3>2
  <2>5. CASE Set(i) \/ Record(i)
    <3>1. /\ pc[i] \in {"set", "record"}
          /\ UNCHANGED <<after[i], page[i], tried[i], since[i]>>
          /\ pc'[i] = "stopped" \/ pc'[i] = IF page[i] = {} THEN "list" ELSE "lookup"
      BY <2>5 DEF Set, Record, Advance, GoTo, TypeOK
    <3> QED BY <2>0, <3>1 DEF CursorCovers
  <2>6. CASE Kill(i)
    BY <2>6 DEF Kill, GoTo, TypeOK
  <2>7. ASSUME NEW j \in Jobs, j # i,
               Start(j) \/ List(j) \/ Lookup(j) \/ Set(j) \/ Record(j) \/ Kill(j)
        PROVE  UNCHANGED <<pc[i], page[i], after[i], since[i], tried[i]>>
    BY <2>7 DEF Start, List, Lookup, Set, Record, Kill, Advance, GoTo, TypeOK
  <2>8. CASE External \/ UNCHANGED vars
    BY <2>1, <2>8 DEF External, ServiceDeletes, ServiceErases, HiveDies, job, vars
  <2> QED BY <2>1, <2>2, <2>3, <2>4, <2>5, <2>6, <2>7, <2>8 DEF Next, Work
<1> QED BY <1>1, <1>2, TypedAlways, PTL DEF Spec

\* A job that ends has skipped no row (NoneSkipped), whatever the batch size
\* and whatever drops out of its listing meanwhile.
THEOREM NoneEverSkipped == Spec => []NoneSkipped
<1>1. CursorCovers => NoneSkipped
  BY DEF CursorCovers, NoneSkipped
<1> QED BY <1>1, CursorAlwaysCovers, PTL
=============================================================================
