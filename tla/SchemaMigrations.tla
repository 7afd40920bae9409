--------------------------- MODULE SchemaMigrations ---------------------------
(***************************************************************************)
(* The schema under the service: the six migrations, run up and down by    *)
(* golang-migrate one file at a time, the version it keeps, and the tool   *)
(* that clears the data, beside a service that writes rows.                *)
(*                                                                         *)
(* A file holds several statements and no BEGIN; sent in one message they  *)
(* are one transaction, so that a file runs as a whole or not at all.      *)
(* Around it golang-migrate writes the version it is about to reach, dirty,*)
(* and then the same version, clean; a dirty version stops it until        *)
(* somebody has looked and forced the version that is really there.        *)
(*                                                                         *)
(* Instants are half days, counted from 0 at a midnight in UTC.            *)
(***************************************************************************)
EXTENDS Integers, FiniteSets

CONSTANTS
  Null,
  HarvestIds,
  Kinds,       \* pairs of a hive and a product
  Instants,    \* half days, for created_at and harvested_at
  Offset       \* half days the session's time zone is ahead of UTC

ASSUME MigrationConstants == Instants \subseteq Nat /\ Offset \in Nat /\ Null \notin Nat

VARIABLES
  schema,   \* what is there: tables, columns, constraints, indexes
  rows,     \* harvests: [kind, made, at], Null for no row
  failures, \* whether harvest_backfill_failures holds a row
  version,  \* schema_migrations: version, 0 for none
  dirty,    \* schema_migrations: dirty
  job,      \* golang-migrate: "idle", "up" or "down" with its file to run,
            \* "done" when it has run
  listed,   \* dbclear: the tables it has listed, Null if it does not run
  given     \* history: the UTC day a row's harvested_at was first given

vars == <<schema, rows, failures, version, dirty, job, listed, given>>
-----------------------------------------------------------------------------
(* The files: what they add and drop.  "day" is harvested_at as a DATE.    *)

Up == <<
  [adds |-> {"harvests", "one_per_product"},       drops |-> {}],
  [adds |-> {"harvested_at", "idx_harvested_at"},  drops |-> {"one_per_product"}],
  [adds |-> {"idx_created_at"},                    drops |-> {}],
  [adds |-> {"day"},                               drops |-> {}],
  [adds |-> {"user_id", "idx_user_id"},            drops |-> {}],
  [adds |-> {"failures"},                          drops |-> {}] >>

\* Mutant: the index of migration 3 stays.
DownLeavesIndex == <<
  [adds |-> {},                  drops |-> {"harvests", "one_per_product"}],
  [adds |-> {"one_per_product"}, drops |-> {"harvested_at", "idx_harvested_at"}],
  [adds |-> {},                  drops |-> {}],
  [adds |-> {},                  drops |-> {"day"}],
  [adds |-> {},                  drops |-> {"user_id", "idx_user_id"}],
  [adds |-> {},                  drops |-> {"failures"}] >>

Down == <<
  [adds |-> {},                  drops |-> {"harvests", "one_per_product"}],
  [adds |-> {"one_per_product"}, drops |-> {"harvested_at", "idx_harvested_at"}],
  [adds |-> {},                  drops |-> {"idx_created_at"}],
  [adds |-> {},                  drops |-> {"day"}],
  [adds |-> {},                  drops |-> {"user_id", "idx_user_id"}],
  [adds |-> {},                  drops |-> {"failures"}] >>

Last == 6
SchemaAt[v \in 0..Last] ==
  IF v = 0 THEN {} ELSE (SchemaAt[v - 1] \ Up[v].drops) \cup Up[v].adds

Stored == {id \in HarvestIds : rows[id] # Null}
Duplicates ==
  \E i, j \in Stored : i # j /\ rows[i].kind = rows[j].kind

\* The drops of 000005 and 000006 say IF EXISTS.
IfExists == {"user_id", "idx_user_id", "failures"}

\* CREATE and ADD fail on what is there, DROP on what is not, a UNIQUE
\* constraint on rows that break it.
Succeeds(file) ==
  /\ file.adds \cap schema = {} /\ file.drops \ IfExists \subseteq schema
  /\ "one_per_product" \in file.adds => ~Duplicates

UTCDay(t) == t \div 2

\* Mutant: the day on the clock of the session.
SessionDay(t) == (t + Offset) \div 2

\* 000004 up: (harvested_at AT TIME ZONE 'UTC')::date.
ToDay(t) == UTCDay(t)

\* 000004 down: midnight in UTC.
ToInstant(d) == 2 * d

\* What up file n makes of a row.
Raised(n, row) ==
  CASE n = 2 -> [row EXCEPT !.at = row.made]
    [] n = 4 -> [row EXCEPT !.at = ToDay(row.at)]
    [] OTHER -> row

\* What down file n makes of a row.
Lowered(n, row) ==
  CASE n = 2 -> [row EXCEPT !.at = Null]
    [] n = 4 -> [row EXCEPT !.at = ToInstant(row.at)]
    [] OTHER -> row

\* The day given for a row's harvested_at starts with the column.
Remember(n, id) ==
  IF rows[id] = Null \/ (n = 2 /\ job = "down") THEN Null
  ELSE IF n = 2 THEN UTCDay(rows[id].made) ELSE given[id]
-----------------------------------------------------------------------------
Init ==
  /\ schema = {} /\ rows = [id \in HarvestIds |-> Null] /\ failures = FALSE
  /\ version = 0 /\ dirty = FALSE /\ job = "idle"
  /\ listed = Null /\ given = [id \in HarvestIds |-> Null]

\* golang-migrate holds an advisory lock: one job at a time.
Begin(direction) ==
  /\ job = "idle" /\ ~dirty
  /\ version' = IF direction = "up" THEN version + 1 ELSE version - 1
  /\ version' \in 0..Last
  /\ dirty' = TRUE /\ job' = direction
  /\ UNCHANGED <<schema, rows, failures, listed, given>>

\* The file's number, and the file.
Number == IF job = "up" THEN version ELSE version + 1
File == IF job = "up" THEN Up[Number] ELSE Down[Number]

Run ==
  /\ job \in {"up", "down"} /\ Succeeds(File)
  /\ schema' = (schema \ File.drops) \cup File.adds
  /\ rows' = [id \in HarvestIds |->
                IF rows[id] = Null \/ "harvests" \in File.drops THEN Null
                ELSE IF job = "up" THEN Raised(Number, rows[id]) ELSE Lowered(Number, rows[id])]
  /\ given' = [id \in HarvestIds |->
                 IF "harvests" \in File.drops THEN Null ELSE Remember(Number, id)]
  /\ failures' = (failures /\ "failures" \notin File.drops)
  /\ job' = "done"
  /\ UNCHANGED <<version, dirty, listed>>

Fails ==
  /\ job \in {"up", "down"} /\ ~Succeeds(File)
  /\ job' = "idle"
  /\ UNCHANGED <<schema, rows, failures, version, dirty, listed, given>>

Clean ==
  /\ job = "done"
  /\ dirty' = FALSE /\ job' = "idle"
  /\ UNCHANGED <<schema, rows, failures, version, listed, given>>

\* The job is stopped, or loses its connection, between two of its steps.
Stop ==
  /\ job # "idle"
  /\ job' = "idle"
  /\ UNCHANGED <<schema, rows, failures, version, dirty, listed, given>>

\* Somebody looks at the schema and forces its version.
ForceVersion ==
  /\ job = "idle" /\ dirty
  /\ \E v \in 0..Last : SchemaAt[v] = schema /\ version' = v
  /\ dirty' = FALSE
  /\ UNCHANGED <<schema, rows, failures, job, listed, given>>
-----------------------------------------------------------------------------
(* The rows.                                                               *)

\* What harvested_at may be in a new row: nothing before there is a column,
\* an instant before there is a day.
Ats ==
  IF "day" \in schema THEN {UTCDay(t) : t \in Instants}
  ELSE IF "harvested_at" \in schema THEN Instants ELSE {Null}

\* The service, or an earlier release of it on an earlier schema, adds a
\* row; a second one for a product is refused while the constraint lasts.
Inserts(id, kind, made, at) ==
  /\ "harvests" \in schema /\ rows[id] = Null
  /\ "one_per_product" \in schema => \A i \in Stored : rows[i].kind # kind
  /\ rows' = [rows EXCEPT ![id] = [kind |-> kind, made |-> made, at |-> at]]
  /\ given' = [given EXCEPT ![id] =
                 IF at = Null \/ "day" \in schema THEN at ELSE UTCDay(at)]
  /\ UNCHANGED <<schema, failures, version, dirty, job, listed>>

Deletes(id) ==
  /\ rows[id] # Null
  /\ rows' = [rows EXCEPT ![id] = Null]
  /\ given' = [given EXCEPT ![id] = Null]
  /\ UNCHANGED <<schema, failures, version, dirty, job, listed>>

\* The backfill notes a row it could not resolve.
NotesFailure ==
  /\ "failures" \in schema /\ ~failures
  /\ failures' = TRUE
  /\ UNCHANGED <<schema, rows, version, dirty, job, listed, given>>
-----------------------------------------------------------------------------
(* cmd/dbclear, once its prompt has been answered with yes.                *)

Tables == {"harvests", "failures"} \cap schema

\* Mutant: golang-migrate's table is cleared with the others.
AllTables == Tables \cup {"schema_migrations"}

\* Every table of the public schema except schema_migrations.
ApplicationTables == Tables

ListTables ==
  /\ listed = Null
  /\ listed' = ApplicationTables
  /\ UNCHANGED <<schema, rows, failures, version, dirty, job, given>>

\* Mutant: the TRUNCATE names the first table only.
TruncateFirst ==
  /\ listed # Null
  /\ rows' = IF "harvests" \in listed \cap schema THEN [id \in HarvestIds |-> Null] ELSE rows
  /\ given' = IF "harvests" \in listed \cap schema THEN [id \in HarvestIds |-> Null] ELSE given
  /\ listed' = Null
  /\ UNCHANGED <<schema, failures, version, dirty, job>>

\* One TRUNCATE of all of them, which fails if one has gone; nothing to do
\* if there was none.
Truncate ==
  /\ listed # Null
  /\ IF listed \subseteq schema \cup {"schema_migrations"}
     THEN /\ rows' = [id \in HarvestIds |->
                        IF "harvests" \in listed THEN Null ELSE rows[id]]
          /\ given' = [id \in HarvestIds |->
                         IF "harvests" \in listed THEN Null ELSE given[id]]
          /\ failures' = (failures /\ "failures" \notin listed)
          /\ version' = IF "schema_migrations" \in listed THEN 0 ELSE version
          /\ dirty' = (dirty /\ "schema_migrations" \notin listed)
     ELSE UNCHANGED <<rows, given, failures, version, dirty>>
  /\ listed' = Null
  /\ UNCHANGED <<schema, job>>
-----------------------------------------------------------------------------
Next ==
  \/ Begin("up") \/ Begin("down") \/ Run \/ Fails \/ Clean \/ Stop \/ ForceVersion
  \/ \E id \in HarvestIds, kind \in Kinds, made \in Instants : \E at \in Ats :
       Inserts(id, kind, made, at)
  \/ \E id \in HarvestIds : Deletes(id)
  \/ NotesFailure \/ ListTables \/ Truncate

Spec == Init /\ [][Next]_vars
-----------------------------------------------------------------------------
(* Properties.                                                             *)

Objects == UNION {Up[n].adds : n \in 1..Last}
Days == {UTCDay(t) : t \in Instants}

\* Every variable holds a value of its kind; a row has a harvested_at as
\* soon as there is such a column, and golang-migrate's own table is no
\* table dbclear knows.
TypeOK ==
  /\ schema \in SUBSET Objects
  /\ rows \in [HarvestIds ->
       [kind : Kinds, made : Instants, at : Nat \cup {Null}] \cup {Null}]
  /\ \A id \in Stored : rows[id].at = Null <=> "harvested_at" \notin schema
  /\ failures \in BOOLEAN
  /\ version \in 0..Last /\ dirty \in BOOLEAN
  /\ job \in {"idle", "up", "down", "done"}
  /\ listed \in {Null} \cup SUBSET {"harvests", "failures"}
  /\ given \in [HarvestIds -> Days \cup {Null}]

\* A file that runs was reached from the version before it, a file that has
\* run left the schema of the version kept; both under a dirty version.
JobInOrder ==
  /\ job # "idle" => dirty
  /\ job = "up" => version >= 1 /\ schema = SchemaAt[version - 1]
  /\ job = "down" => version + 1 <= Last /\ schema = SchemaAt[version + 1]
  /\ job = "done" => schema = SchemaAt[version]

\* There are rows only in a table, and there is no table of failures without
\* one of harvests, in the schema or in what dbclear has listed.
RowsInTable ==
  /\ "harvests" \notin schema => Stored = {}
  /\ listed # Null /\ "failures" \in listed => "harvests" \in listed

\* A clean version is the schema's, however jobs were stopped and whatever
\* was cleared; a dirty one is at most one file away, so that the schema it
\* has been forced to can be told.
VersionTellsSchema ==
  \E v \in 0..Last :
    /\ schema = SchemaAt[v]
    /\ v - version \in -1..1
    /\ ~dirty => v = version

\* From the moment a row has a harvested_at, its day in UTC stays the same
\* through every sequence of files that leaves it one (the comments in
\* 000004: "Preserve the existing UTC calendar date", "midnight UTC").
DaysKept ==
  \A id \in Stored : "harvested_at" \in schema =>
    given[id] = IF "day" \in schema THEN rows[id].at ELSE UTCDay(rows[id].at)

\* The one file that may fail is 000002 down, and only on a hive that has
\* two records of a product by then.
OnlyDuplicatesStopAFile ==
  job \in {"up", "down"} /\ ~Succeeds(File) =>
    job = "down" /\ Number = 2 /\ Duplicates

\* A clear removes every row of every table it listed, or none at all, with
\* migrations running under it.
ClearIsAllOrNothing ==
  [][listed # Null /\ listed' = Null =>
       \/ UNCHANGED <<rows, failures>>
       \/ /\ \A id \in HarvestIds : rows'[id] = Null
          /\ failures' => "failures" \notin listed]_vars
=============================================================================
