--------------------------- MODULE OwnerBackfill ---------------------------
(***************************************************************************)
(* cmd/backfill-owners: the one-shot job that gives rows from before       *)
(* migration 5 their user_id, while harvest-service serves requests on the *)
(* same table.  The job pages through the rows without an owner by a       *)
(* cursor on the id, asks hive-service for the owner of each row's hive,   *)
(* and writes either the owner or a failure record.                        *)
(*                                                                         *)
(*   stopped -> list -> (lookup -> set | record)* -> list ... -> done      *)
(*                                                                         *)
(* It holds no lock: several jobs may run at once, any of them may be      *)
(* killed and started again, and a failing ListLegacy or SetUserID panics. *)
(* The reason and the number of attempts of a failure record and the       *)
(* printed counters are left out.                                          *)
(***************************************************************************)
EXTENDS HarvestTable, Integers, FiniteSets

CONSTANTS
  Jobs,         \* runs of the program that may overlap
  HarvestIds,   \* uuids, by their order: positive integers
  HiveIds,
  Users,
  Owner,        \* hive-service's owner of each hive; never transferred
  Batch,        \* rows per ListLegacy; 100 in the code
  Faults        \* the failures that may happen

ASSUME BackfillConstants ==
  /\ HarvestIds \subseteq Nat \ {0}
  /\ Batch \in Nat \ {0}
  /\ Null \notin Users \cup HiveIds \cup [id : HarvestIds, hive : HiveIds]
  /\ Owner \in [HiveIds -> Users]
  /\ Faults \subseteq {"hive", "db", "crash"}

VARIABLES
  rows,      \* the harvests table
  failures,  \* ids with a row in harvest_backfill_failures
  pc,        \* where each job is
  after,     \* its cursor, 0 for uuid.Nil
  page,      \* rows listed and not yet looked at
  row,       \* the row it is at
  owner,     \* the owner hive-service named for that row
  since,     \* history: ids without an owner when the job started
  tried,     \* history: ids whose owner the job has asked for
  alive,     \* hive-service: hives not deleted
  accounts   \* account service: accounts not closed

job == <<pc, after, page, row, owner, since, tried>>
vars == <<rows, failures, job, alive, accounts>>
-----------------------------------------------------------------------------
\* WHERE user_id IS NULL
Legacy == {id \in HarvestIds : rows[id] # Null /\ rows[id].user = Null}

\* The n smallest members of S.
Lowest(S, n) == {x \in S : Cardinality({y \in S : y < x}) < n}

\* Mutant: the n-th page by OFFSET, as the lists of the service have it.
ListLegacyByOffset(j) ==
  LET offset == Cardinality(tried[j])
  IN  Lowest(Legacy, offset + Batch) \ Lowest(Legacy, offset)

\* AND id > $1 ORDER BY id LIMIT $2
ListLegacy(j) == Lowest({id \in Legacy : id > after[j]}, Batch)

\* Mutant: a row that is gone is written back.
SetUserIDUpserts(t, r, u) == [t EXCEPT ![r.id] = Row(r.hive, u, Null)]

\* UPDATE ... WHERE id = $1 AND user_id IS NULL
SetUserID(t, r, u) ==
  IF t[r.id] # Null /\ t[r.id].user = Null
  THEN [t EXCEPT ![r.id] = Row(t[r.id].hive, u, t[r.id].body)]
  ELSE t

Init ==
  /\ rows \in [HarvestIds -> {Null} \cup {Row(h, Null, Null) : h \in HiveIds}]
  /\ failures = {}
  /\ pc = [j \in Jobs |-> "stopped"]
  /\ after = [j \in Jobs |-> 0]
  /\ page = [j \in Jobs |-> {}]
  /\ row = [j \in Jobs |-> Null]
  /\ owner = [j \in Jobs |-> Null]
  /\ since = [j \in Jobs |-> {}]
  /\ tried = [j \in Jobs |-> {}]
  /\ alive = HiveIds
  /\ accounts = Users
-----------------------------------------------------------------------------
(* The job.                                                                *)

GoTo(j, step) == pc' = [pc EXCEPT ![j] = step]

Start(j) ==
  /\ pc[j] \in {"stopped", "done"}
  /\ GoTo(j, "list")
  /\ after' = [after EXCEPT ![j] = 0]
  /\ page' = [page EXCEPT ![j] = {}]
  /\ row' = [row EXCEPT ![j] = Null]
  /\ owner' = [owner EXCEPT ![j] = Null]
  /\ since' = [since EXCEPT ![j] = Legacy]
  /\ tried' = [tried EXCEPT ![j] = {}]
  /\ UNCHANGED <<rows, failures, alive, accounts>>

\* An empty batch is the end; an error is a panic, and so is the next one's.
List(j) ==
  /\ pc[j] = "list"
  /\ \/ LET ids == ListLegacy(j) IN
        /\ GoTo(j, IF ids = {} THEN "done" ELSE "lookup")
        /\ page' = [page EXCEPT ![j] = {[id |-> id, hive |-> rows[id].hive] : id \in ids}]
     \/ /\ "db" \in Faults
        /\ GoTo(j, "stopped")
        /\ UNCHANGED page
  /\ UNCHANGED <<rows, failures, after, row, owner, since, tried, alive, accounts>>

\* Mutant: the decoded owner is declared outside the loop, and a reply
\* without one leaves it as it was.
AskOwnerStale(j, h) ==
  IF h \in alive THEN {Owner[h]} ELSE {owner[j]}

\* Mutant: an owner that does not parse is taken as it is.
AskOwnerUnparsed(j, h) == {IF h \in alive THEN Owner[h] ELSE "no uuid"}

\* What hive-service names as the owner of h: Null when it cannot be
\* reached, answers with an error, or has no such hive.
AskOwner(j, h) ==
  (IF h \in alive THEN {Owner[h]} ELSE {Null})
    \cup (IF "hive" \in Faults THEN {Null} ELSE {})

\* Mutant: the cursor moves only past rows that were resolved.
LookupAgain(j) ==
  /\ pc[j] = "lookup"
  /\ \E r \in page[j] : \E u \in AskOwner(j, r.hive) :
       /\ \A q \in page[j] : r.id <= q.id
       /\ after' = [after EXCEPT ![j] = IF u = Null THEN @ ELSE r.id]
       /\ page' = [page EXCEPT ![j] = @ \ {r}]
       /\ row' = [row EXCEPT ![j] = r]
       /\ tried' = [tried EXCEPT ![j] = @ \cup {r.id}]
       /\ owner' = [owner EXCEPT ![j] = u]
       /\ GoTo(j, IF u = Null THEN "record" ELSE "set")
  /\ UNCHANGED <<rows, failures, since, alive, accounts>>

\* The next row of the batch: the cursor moves past it whatever comes of it.
Lookup(j) ==
  /\ pc[j] = "lookup"
  /\ \E r \in page[j] : \E u \in AskOwner(j, r.hive) :
       /\ \A q \in page[j] : r.id <= q.id
       /\ after' = [after EXCEPT ![j] = r.id]
       /\ page' = [page EXCEPT ![j] = @ \ {r}]
       /\ row' = [row EXCEPT ![j] = r]
       /\ tried' = [tried EXCEPT ![j] = @ \cup {r.id}]
       /\ owner' = [owner EXCEPT ![j] = u]
       /\ GoTo(j, IF u = Null THEN "record" ELSE "set")
  /\ UNCHANGED <<rows, failures, since, alive, accounts>>

\* To the next row, or, after the last of a batch, to the next batch.
Advance(j) == GoTo(j, IF page[j] = {} THEN "list" ELSE "lookup")

\* An error here is a panic, whether the statement took effect or not.
Set(j) ==
  /\ pc[j] = "set"
  /\ \/ rows' = SetUserID(rows, row[j], owner[j]) /\ Advance(j)
     \/ /\ "db" \in Faults
        /\ rows' = SetUserID(rows, row[j], owner[j]) \/ UNCHANGED rows
        /\ GoTo(j, "stopped")
  /\ UNCHANGED <<failures, after, page, row, owner, since, tried, alive, accounts>>

\* The error of RecordBackfillFailure is dropped.
Record(j) ==
  /\ pc[j] = "record"
  /\ \/ failures' = failures \cup {row[j].id}
     \/ "db" \in Faults /\ UNCHANGED failures
  /\ Advance(j)
  /\ UNCHANGED <<rows, after, page, row, owner, since, tried, alive, accounts>>

Kill(j) ==
  /\ "crash" \in Faults
  /\ pc[j] \notin {"stopped", "done"}
  /\ GoTo(j, "stopped")
  /\ UNCHANGED <<rows, failures, after, page, row, owner, since, tried, alive, accounts>>

Work(j) == List(j) \/ Lookup(j) \/ Set(j) \/ Record(j)
-----------------------------------------------------------------------------
(* What harvest-service does to the table in the meantime, and external    *)
(* events.  A row the service inserts always has an owner.                 *)

\* DeleteByHive; Delete is the same for one of the hive's rows.  The hive was
\* there when hive-service was asked, a call earlier.
ServiceDeletes(h) ==
  /\ \E ids \in {IdsByHive(rows, h)} \cup {{id} : id \in IdsByHive(rows, h)} :
       /\ ids # {}
       /\ rows' = DeleteRows(rows, ids)
  /\ UNCHANGED <<failures, job, alive, accounts>>

\* DELETE /internal/api/v1/users/{userID}, on the closing of an account; at
\* best for the job, hive-service has let go of its hives by then.
ServiceErases(u) ==
  /\ u \in accounts
  /\ rows' = DeleteAllByUser(rows, u)
  /\ accounts' = accounts \ {u}
  /\ alive' = {h \in alive : Owner[h] # u}
  /\ UNCHANGED <<failures, job>>

HiveDies(h) ==
  /\ h \in alive
  /\ alive' = alive \ {h}
  /\ UNCHANGED <<rows, failures, job, accounts>>

External ==
  \/ \E h \in HiveIds : ServiceDeletes(h) \/ HiveDies(h)
  \/ \E u \in Users : ServiceErases(u)

Next ==
  \/ \E j \in Jobs : Start(j) \/ Work(j) \/ Kill(j)
  \/ External

Spec == Init /\ [][Next]_vars

\* A job that is not killed goes on: its client gives up after 10 s.
FairSpec == Spec /\ \A j \in Jobs : WF_vars(Work(j))
-----------------------------------------------------------------------------
(* Properties.                                                             *)

\* Every variable holds a value of its kind.
TypeOK ==
  LET Listed == [id : HarvestIds, hive : HiveIds] IN
  /\ rows \in [HarvestIds -> [hive : HiveIds, user : Users \cup {Null}, body : {Null}] \cup {Null}]
  /\ failures \subseteq HarvestIds
  /\ pc \in [Jobs -> {"stopped", "list", "lookup", "set", "record", "done"}]
  /\ after \in [Jobs -> HarvestIds \cup {0}]
  /\ page \in [Jobs -> SUBSET Listed]
  /\ row \in [Jobs -> Listed \cup {Null}]
  /\ owner \in [Jobs -> Users \cup {Null}]
  /\ since \in [Jobs -> SUBSET HarvestIds]
  /\ tried \in [Jobs -> SUBSET HarvestIds]
  /\ alive \subseteq HiveIds
  /\ accounts \subseteq Users

\* A job that writes has a row to write of.
RowKnown == \A j \in Jobs : pc[j] \in {"set", "record"} => row[j] # Null

\* What a job knows of a row is still true of it, if it is there.
ListedTruly ==
  \A j \in Jobs :
    /\ \A q \in page[j] : rows[q.id] # Null => rows[q.id].hive = q.hive
    /\ pc[j] = "set" =>
         /\ owner[j] = Owner[row[j].hive]
         /\ rows[row[j].id] # Null => rows[row[j].id].hive = row[j].hive

\* A row without an owner since the start has been asked for, is in the
\* batch, or comes after the cursor and the whole batch.
CursorCovers ==
  \A j \in Jobs : \A id \in since[j] \cap Legacy :
    \/ pc[j] = "stopped"
    \/ id \in tried[j]
    \/ pc[j] = "list" /\ after[j] < id
    \/ /\ pc[j] \in {"lookup", "set", "record"}
       /\ \/ \E q \in page[j] : q.id = id
          \/ after[j] < id /\ \A q \in page[j] : q.id < id

\* A row is given the owner of its own hive, however hive-service fails on
\* the rows before it.
StampedWithOwner ==
  \A id \in HarvestIds :
    rows[id] # Null => rows[id].user \in {Null, Owner[rows[id].hive]}

\* A job that came to its end has asked for the owner of every row that had
\* none when it started and has none now, although the rows it resolves and
\* those the service deletes drop out of its listing between two batches.
NoneSkipped ==
  \A j \in Jobs : pc[j] = "done" => since[j] \cap Legacy \subseteq tried[j]

\* The job only ever adds an owner: a row removed behind its back does not
\* come back, and an owner once there stays.
OnlyAddsOwners ==
  [][\A id \in HarvestIds :
       rows'[id] # rows[id] =>
         \/ rows'[id] = Null
         \/ rows[id] # Null /\ rows[id].user = Null /\ rows'[id].hive = rows[id].hive]_vars

\* A run comes to an end however many rows stay without an owner.
RunEnds == \A j \in Jobs : pc[j] = "list" ~> pc[j] \in {"stopped", "done"}
=============================================================================
