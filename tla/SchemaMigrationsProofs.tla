----------------------- MODULE SchemaMigrationsProofs -----------------------
(***************************************************************************)
(* Proofs, for every value of the constants, of the safety of              *)
(* SchemaMigrations.                                                       *)
(*                                                                         *)
(* SchemaTable says which schema each version is, FilesMatch what follows  *)
(* for the files: that each starts from the schema of its neighbour and    *)
(* leads to its own, and which columns come and go with it.  From there    *)
(* the proofs speak of a file by its number alone.                         *)
(*                                                                         *)
(* The inductive invariant is TypeOK, JobInOrder (what a job in progress   *)
(* may rely on), VersionTellsSchema and RowsInTable.                       *)
(***************************************************************************)
EXTENDS SchemaMigrations, TLAPS

\* The schemas the six up files lead through (migrations/*.up.sql).
LEMMA SchemaTable ==
  /\ SchemaAt[0] = {}
  /\ SchemaAt[1] = {"harvests", "one_per_product"}
  /\ SchemaAt[2] = {"harvests", "harvested_at", "idx_harvested_at"}
  /\ SchemaAt[3] = {"harvests", "harvested_at", "idx_harvested_at", "idx_created_at"}
  /\ SchemaAt[4] = {"harvests", "harvested_at", "idx_harvested_at", "idx_created_at", "day"}
  /\ SchemaAt[5] = {"harvests", "harvested_at", "idx_harvested_at", "idx_created_at", "day",
                    "user_id", "idx_user_id"}
  /\ SchemaAt[6] = {"harvests", "harvested_at", "idx_harvested_at", "idx_created_at", "day",
                    "user_id", "idx_user_id", "failures"}
<1> DEFINE
      S1 == {"harvests", "one_per_product"}
      S2 == {"harvests", "harvested_at", "idx_harvested_at"}
      S3 == S2 \cup {"idx_created_at"}
      S4 == S3 \cup {"day"}
      S5 == S4 \cup {"user_id", "idx_user_id"}
      S6 == S5 \cup {"failures"}
      F == [v \in 0..Last |-> IF v = 0 THEN {} ELSE IF v = 1 THEN S1 ELSE IF v = 2 THEN S2
              ELSE IF v = 3 THEN S3 ELSE IF v = 4 THEN S4 ELSE IF v = 5 THEN S5 ELSE S6]
      G(f) == [v \in 0..Last |-> IF v = 0 THEN {} ELSE (f[v - 1] \ Up[v].drops) \cup Up[v].adds]
<1>1. F = G(F)
  <2>1. \A v \in 0..Last :
          F[v] = IF v = 0 THEN {} ELSE (F[v - 1] \ Up[v].drops) \cup Up[v].adds
    <3> SUFFICES ASSUME NEW v \in 0..Last
                 PROVE  F[v] = IF v = 0 THEN {} ELSE (F[v - 1] \ Up[v].drops) \cup Up[v].adds
      BY Zenon
    <3>1. CASE v = 0
      BY <3>1 DEF Last
    <3>2. CASE v = 1
      BY <3>2 DEF Last, Up
    <3>3. CASE v = 2
      BY <3>3 DEF Last, Up
    <3>4. CASE v = 3
      BY <3>4 DEF Last, Up
    <3>5. CASE v = 4
      BY <3>5 DEF Last, Up
    <3>6. CASE v = 5
      BY <3>6 DEF Last, Up
    <3>7. CASE v = 6
      BY <3>7 DEF Last, Up
    <3> QED
      BY <3>1, <3>2, <3>3, <3>4, <3>5, <3>6, <3>7 DEF Last
  <2>2. F = [v \in 0..Last |-> F[v]]
    OBVIOUS
  <2> HIDE DEF F
  <2> QED
    BY <2>1, <2>2, Zenon
<1>2. SchemaAt = CHOOSE f : f = G(f)
  BY DEF SchemaAt
<1>3. SchemaAt = G(SchemaAt)
  <2> HIDE DEF F, G
  <2> QED
    BY <1>1, <1>2
<1>4. /\ SchemaAt[0] = {}
      /\ \A v \in 1..Last : SchemaAt[v] = (SchemaAt[v - 1] \ Up[v].drops) \cup Up[v].adds
  <2> HIDE DEF F
  <2> QED
    BY <1>3 DEF Last
<1>5. SchemaAt[1] = S1
  BY <1>4 DEF Last, Up
<1>6. SchemaAt[2] = S2
  BY <1>4, <1>5 DEF Last, Up
<1>7. SchemaAt[3] = S3
  BY <1>4, <1>6 DEF Last, Up
<1>8. SchemaAt[4] = S4
  BY <1>4, <1>7 DEF Last, Up
<1>9. SchemaAt[5] = S5
  BY <1>4, <1>8 DEF Last, Up
<1>10. SchemaAt[6] = S6
  BY <1>4, <1>9 DEF Last, Up
<1> QED
  BY <1>4, <1>5, <1>6, <1>7, <1>8, <1>9, <1>10

\* What each file finds, adds and drops, by its number (migrations/*.sql).
LEMMA FilesMatch ==
  ASSUME NEW n \in 1..Last
  PROVE  /\ (SchemaAt[n - 1] \ Up[n].drops) \cup Up[n].adds = SchemaAt[n]
         /\ (SchemaAt[n] \ Down[n].drops) \cup Down[n].adds = SchemaAt[n - 1]
         /\ Up[n].adds \cap SchemaAt[n - 1] = {} /\ Up[n].drops \ IfExists \subseteq SchemaAt[n - 1]
         /\ Down[n].adds \cap SchemaAt[n] = {} /\ Down[n].drops \ IfExists \subseteq SchemaAt[n]
         /\ "one_per_product" \in Up[n].adds <=> n = 1
         /\ "one_per_product" \in Down[n].adds <=> n = 2
         /\ "harvests" \notin Up[n].drops /\ "failures" \notin Up[n].drops
         /\ "harvests" \in Down[n].drops <=> n = 1
         /\ "failures" \in Down[n].drops <=> n = 6
<1>1. n \in {1, 2, 3, 4, 5, 6}
  BY DEF Last
<1>2. CASE n = 1
  BY <1>2, SchemaTable DEF Up, Down, IfExists
<1>3. CASE n = 2
  BY <1>3, SchemaTable DEF Up, Down, IfExists
<1>4. CASE n = 3
  BY <1>4, SchemaTable DEF Up, Down, IfExists
<1>5. CASE n = 4
  BY <1>5, SchemaTable DEF Up, Down, IfExists
<1>6. CASE n = 5
  BY <1>6, SchemaTable DEF Up, Down, IfExists
<1>7. CASE n = 6
  BY <1>7, SchemaTable DEF Up, Down, IfExists
<1> QED
  BY <1>1, <1>2, <1>3, <1>4, <1>5, <1>6, <1>7

\* Which versions have which parts of the schema.
LEMMA PartsByVersion ==
  ASSUME NEW v \in 0..Last
  PROVE  /\ SchemaAt[v] \subseteq Objects
         /\ "harvests" \in SchemaAt[v] <=> v >= 1
         /\ "harvested_at" \in SchemaAt[v] <=> v >= 2
         /\ "day" \in SchemaAt[v] <=> v >= 4
         /\ "failures" \in SchemaAt[v] <=> v >= 6
<1>1. v \in {0, 1, 2, 3, 4, 5, 6}
  BY DEF Last
<1>2. Objects = {"harvests", "one_per_product", "harvested_at", "idx_harvested_at",
                 "idx_created_at", "day", "user_id", "idx_user_id", "failures"}
  <2>1. Objects = UNION {Up[1].adds, Up[2].adds, Up[3].adds, Up[4].adds, Up[5].adds, Up[6].adds}
    BY DEF Objects, Last
  <2> QED
    BY <2>1 DEF Up
<1>3. CASE v = 0
  BY <1>3, SchemaTable
<1>4. CASE v = 1
  BY <1>2, <1>4, SchemaTable
<1>5. CASE v = 2
  BY <1>2, <1>5, SchemaTable
<1>6. CASE v = 3
  BY <1>2, <1>6, SchemaTable
<1>7. CASE v = 4
  BY <1>2, <1>7, SchemaTable
<1>8. CASE v = 5
  BY <1>2, <1>8, SchemaTable
<1>9. CASE v = 6
  BY <1>2, <1>9, SchemaTable
<1> QED
  BY <1>1, <1>3, <1>4, <1>5, <1>6, <1>7, <1>8, <1>9
-----------------------------------------------------------------------------
(* One file.                                                               *)

\* A job's file, by its number, and where it starts from.
LEMMA FileOfJob ==
  ASSUME TypeOK, JobInOrder, job \in {"up", "down"}
  PROVE  /\ Number \in 1..Last
         /\ job = "up" => /\ File = Up[Number] /\ version = Number
                          /\ schema = SchemaAt[Number - 1]
         /\ job = "down" => /\ File = Down[Number] /\ version = Number - 1
                            /\ schema = SchemaAt[Number]
  BY DEF TypeOK, JobInOrder, Number, File, Last

\* A file that runs makes the schema the one of the version kept.
LEMMA RunReaches ==
  ASSUME TypeOK, JobInOrder, Run
  PROVE  schema' = SchemaAt[version]
<1>1. CASE job = "up"
  BY <1>1, FileOfJob, FilesMatch DEF Run
<1>2. CASE job = "down"
  BY <1>2, FileOfJob, FilesMatch DEF Run
<1> QED
  BY <1>1, <1>2 DEF Run

\* What a file makes of a row and of the day given for it.
LEMMA RunOnRow ==
  ASSUME TypeOK, Run, NEW id \in HarvestIds
  PROVE  /\ rows[id] = Null \/ "harvests" \in File.drops =>
              rows'[id] = Null /\ given'[id] = Null
         /\ rows[id] # Null /\ "harvests" \notin File.drops =>
              /\ job = "up" /\ Number = 2 =>
                   /\ rows'[id] = [rows[id] EXCEPT !.at = rows[id].made]
                   /\ given'[id] = UTCDay(rows[id].made)
              /\ job = "down" /\ Number = 2 =>
                   rows'[id] = [rows[id] EXCEPT !.at = Null] /\ given'[id] = Null
              /\ job = "up" /\ Number = 4 =>
                   /\ rows'[id] = [rows[id] EXCEPT !.at = UTCDay(rows[id].at)]
                   /\ given'[id] = given[id]
              /\ job = "down" /\ Number = 4 =>
                   /\ rows'[id] = [rows[id] EXCEPT !.at = 2 * rows[id].at]
                   /\ given'[id] = given[id]
              /\ Number \notin {2, 4} => rows'[id] = rows[id] /\ given'[id] = given[id]
<1>1. /\ rows'[id] = IF rows[id] = Null \/ "harvests" \in File.drops THEN Null
                      ELSE IF job = "up" THEN Raised(Number, rows[id])
                      ELSE Lowered(Number, rows[id])
      /\ given'[id] = IF "harvests" \in File.drops THEN Null ELSE Remember(Number, id)
      /\ job \in {"up", "down"}
  BY DEF Run
<1>2. CASE rows[id] = Null \/ "harvests" \in File.drops
  <2>1. rows'[id] = Null
    BY <1>1, <1>2
  <2>2. rows[id] = Null => Remember(Number, id) = Null
    BY DEF Remember
  <2> QED
    BY <1>1, <1>2, <2>1, <2>2
<1>3. CASE rows[id] # Null /\ "harvests" \notin File.drops /\ job = "up"
  <2>1. rows'[id] = Raised(Number, rows[id]) /\ given'[id] = Remember(Number, id)
    BY <1>1, <1>3, Zenon
  <2>2. CASE Number = 2
    BY <1>3, <2>1, <2>2 DEF Raised, Remember
  <2>3. CASE Number = 4
    BY <1>3, <2>1, <2>3 DEF Raised, Remember, ToDay
  <2>4. CASE Number \notin {2, 4}
    BY <1>3, <2>1, <2>4 DEF Raised, Remember
  <2> QED
    BY <1>3, <2>2, <2>3, <2>4
<1>4. CASE rows[id] # Null /\ "harvests" \notin File.drops /\ job = "down"
  <2>1. rows'[id] = Lowered(Number, rows[id]) /\ given'[id] = Remember(Number, id)
    BY <1>1, <1>4, Zenon
  <2>2. CASE Number = 2
    BY <1>4, <2>1, <2>2 DEF Lowered, Remember
  <2>3. CASE Number = 4
    BY <1>4, <2>1, <2>3 DEF Lowered, Remember, ToInstant
  <2>4. CASE Number \notin {2, 4}
    BY <1>4, <2>1, <2>4 DEF Lowered, Remember
  <2> QED
    BY <1>4, <2>2, <2>3, <2>4
<1> QED
  BY <1>1, <1>2, <1>3, <1>4
-----------------------------------------------------------------------------
(* The invariant.                                                          *)

\* A row a file has run on has a harvested_at if and only if there is such a
\* column now, and the day given for it is one of the days there are.
LEMMA RunTypes ==
  ASSUME TypeOK, JobInOrder, Run
  PROVE  TypeOK'
<1> USE MigrationConstants
<1>1. /\ Number \in 1..Last /\ schema' = SchemaAt[version]
      /\ version \in 0..Last
  BY FileOfJob, RunReaches DEF Run, TypeOK
<1>2. schema' \in SUBSET Objects
  BY <1>1, PartsByVersion
<1>3. ASSUME NEW id \in HarvestIds
      PROVE  /\ rows'[id] \in [kind : Kinds, made : Instants, at : Nat \cup {Null}] \cup {Null}
             /\ rows'[id] # Null => (rows'[id].at = Null <=> "harvested_at" \notin schema')
             /\ given'[id] \in Days \cup {Null}
  <2>1. CASE rows[id] = Null \/ "harvests" \in File.drops
    BY <2>1, <1>3, RunOnRow
  <2>2. CASE rows[id] # Null /\ "harvests" \notin File.drops
    <3> DEFINE row == rows[id]
    <3>1. /\ row \in [kind : Kinds, made : Instants, at : Nat \cup {Null}]
          /\ row.at = Null <=> "harvested_at" \notin schema
          /\ given[id] \in Days \cup {Null}
      BY <2>2 DEF TypeOK, Stored
    <3>2. CASE job = "up" /\ Number = 2
      <4>1. rows'[id] = [row EXCEPT !.at = row.made] /\ given'[id] = UTCDay(row.made)
        BY <2>2, <3>2, RunOnRow
      <4>2. "harvested_at" \in schema'
        BY <1>1, <3>2, FileOfJob, PartsByVersion DEF Run
      <4> QED
        BY <3>1, <4>1, <4>2 DEF Days
    <3>3. CASE job = "down" /\ Number = 2
      <4>1. rows'[id] = [row EXCEPT !.at = Null] /\ given'[id] = Null
        BY <2>2, <3>3, RunOnRow
      <4>2. "harvested_at" \notin schema'
        BY <1>1, <3>3, FileOfJob, PartsByVersion DEF Run
      <4> QED
        BY <3>1, <4>1, <4>2
    <3>4. CASE Number # 2
      <4>1. "harvested_at" \in schema' <=> "harvested_at" \in schema
        <5>1. CASE job = "up"
          BY <1>1, <3>4, <5>1, FileOfJob, PartsByVersion DEF Run, Last
        <5>2. CASE job = "down"
          BY <1>1, <3>4, <5>2, FileOfJob, PartsByVersion DEF Run, Last
        <5> QED
          BY <5>1, <5>2 DEF Run
      <4>2. CASE Number = 4
        <5>1. row.at \in Nat
          <6>1. "harvested_at" \in schema
            <7>1. CASE job = "up"
              BY <1>1, <4>2, <7>1, FileOfJob, PartsByVersion DEF Run, Last
            <7>2. CASE job = "down"
              BY <1>1, <4>2, <7>2, FileOfJob, PartsByVersion DEF Run, Last
            <7> QED
              BY <7>1, <7>2 DEF Run
          <6> QED
            BY <3>1, <6>1
        <5>2. /\ \/ rows'[id] = [row EXCEPT !.at = UTCDay(row.at)]
                 \/ rows'[id] = [row EXCEPT !.at = 2 * row.at]
              /\ given'[id] = given[id]
          BY <2>2, <4>2, RunOnRow DEF Run
        <5> QED
          BY <3>1, <4>1, <5>1, <5>2 DEF UTCDay
      <4>3. CASE Number # 4
        BY <2>2, <3>1, <3>4, <4>1, <4>3, RunOnRow
      <4> QED
        BY <4>2, <4>3
    <3> QED
      BY <3>2, <3>3, <3>4 DEF Run
  <2> QED
    BY <2>1, <2>2
<1>4. /\ rows' \in [HarvestIds -> [kind : Kinds, made : Instants, at : Nat \cup {Null}] \cup {Null}]
      /\ given' \in [HarvestIds -> Days \cup {Null}]
  <2>1. /\ rows' = [id \in HarvestIds |-> rows'[id]]
        /\ given' = [id \in HarvestIds |-> given'[id]]
    BY DEF Run
  <2> QED
    BY <1>3, <2>1
<1> QED
  BY <1>1, <1>2, <1>3, <1>4 DEF Run, TypeOK, Stored
\* Types, jobs, version and rows hold together, whatever is stopped, forced,
\* written or cleared between two steps.
LEMMA SchemaInvariant == Spec => [](TypeOK /\ JobInOrder /\ VersionTellsSchema /\ RowsInTable)
<1> DEFINE Inv == TypeOK /\ JobInOrder /\ VersionTellsSchema /\ RowsInTable
<1> USE MigrationConstants
<1>1. Init => Inv
  <2> SUFFICES ASSUME Init PROVE Inv
    OBVIOUS
  <2>1. TypeOK
    <3>1. Stored = {}
      BY DEF Init, Stored
    <3>2. schema \in SUBSET Objects /\ version \in 0..Last
      BY DEF Init, Last
    <3>3. failures \in BOOLEAN /\ dirty \in BOOLEAN
      BY DEF Init
    <3>4. listed \in {Null} \cup SUBSET {"harvests", "failures"}
      BY DEF Init
    <3>5. /\ rows \in [HarvestIds ->
                 [kind : Kinds, made : Instants, at : Nat \cup {Null}] \cup {Null}]
          /\ given \in [HarvestIds -> Days \cup {Null}]
          /\ job \in {"idle", "up", "down", "done"}
      BY DEF Init
    <3> QED
      BY <3>1, <3>2, <3>3, <3>4, <3>5 DEF TypeOK
  <2>2. VersionTellsSchema
    BY SchemaTable DEF Init, VersionTellsSchema, Last
  <2> QED
    BY <2>1, <2>2 DEF Init, JobInOrder, RowsInTable, Stored
<1>2. Inv /\ [Next]_vars => Inv'
  <2> SUFFICES ASSUME TypeOK, JobInOrder, VersionTellsSchema, RowsInTable, [Next]_vars
               PROVE  Inv'
    OBVIOUS
  <2>1. ASSUME NEW direction \in {"up", "down"}, Begin(direction) PROVE Inv'
    <3>1. TypeOK'
      BY <2>1 DEF Begin, TypeOK, Stored
    <3>2. schema = SchemaAt[version] /\ version \in 0..Last
      BY <2>1 DEF Begin, VersionTellsSchema, TypeOK
    <3>3. JobInOrder'
      BY <2>1, <3>2 DEF Begin, JobInOrder, Last
    <3>4. VersionTellsSchema'
      BY <2>1, <3>2 DEF Begin, VersionTellsSchema, Last
    <3> QED
      BY <2>1, <3>1, <3>3, <3>4 DEF Begin, RowsInTable, Stored
  <2>2. CASE Run
    <3>1. schema' = SchemaAt[version] /\ version \in 0..Last
      BY <2>2, RunReaches DEF TypeOK
    <3>2. dirty' /\ job' = "done" /\ version' = version /\ listed' = listed
      BY <2>2 DEF Run, JobInOrder
    <3>3. JobInOrder'
      BY <3>1, <3>2 DEF JobInOrder
    <3>4. VersionTellsSchema'
      BY <3>1, <3>2 DEF VersionTellsSchema
    <3>5. RowsInTable'
      <4>1. ASSUME "harvests" \notin schema', NEW id \in HarvestIds PROVE rows'[id] = Null
        <5>1. CASE "harvests" \in schema
          BY <2>2, <4>1, <5>1, RunOnRow DEF Run
        <5>2. CASE "harvests" \notin schema
          BY <2>2, <5>2, RunOnRow DEF RowsInTable, Stored
        <5> QED
          BY <5>1, <5>2
      <4> QED
        BY <3>2, <4>1 DEF RowsInTable, Stored
    <3> QED
      BY <2>2, <3>3, <3>4, <3>5, RunTypes
  <2>3. CASE Fails \/ Clean \/ Stop
    <3>1. TypeOK'
      BY <2>3 DEF Fails, Clean, Stop, TypeOK, Stored
    <3>2. VersionTellsSchema'
      BY <2>3 DEF Fails, Clean, Stop, VersionTellsSchema, JobInOrder, TypeOK, Last
    <3> QED
      BY <2>3, <3>1, <3>2 DEF Fails, Clean, Stop, JobInOrder, RowsInTable, Stored
  <2>4. CASE ForceVersion
    <3>1. /\ version' \in 0..Last /\ SchemaAt[version'] = schema
          /\ dirty' = FALSE /\ job = "idle"
          /\ UNCHANGED <<schema, rows, failures, job, listed, given>>
      BY <2>4 DEF ForceVersion
    <3>2. TypeOK'
      BY <3>1 DEF TypeOK, Stored
    <3>3. VersionTellsSchema'
      <4>1. version' - version' \in -1..1
        <5>1. \A n \in 0..Last : n - n \in -1..1
          BY DEF Last
        <5> QED
          BY <3>1, <5>1
      <4> QED
        BY <3>1, <4>1 DEF VersionTellsSchema
    <3> QED
      BY <3>1, <3>2, <3>3 DEF JobInOrder, RowsInTable, Stored
  <2>5. ASSUME NEW id \in HarvestIds, NEW kind \in Kinds, NEW made \in Instants,
               NEW at \in Ats, Inserts(id, kind, made, at)
        PROVE  Inv'
    <3>1. at \in Nat \cup {Null} /\ (at = Null <=> "harvested_at" \notin schema)
      <4>1. "day" \in schema => "harvested_at" \in schema
        BY PartsByVersion DEF VersionTellsSchema, Last
      <4>2. CASE "day" \in schema
        <5>1. PICK t \in Instants : at = UTCDay(t)
          BY <4>2 DEF Ats
        <5> QED
          BY <4>1, <4>2, <5>1 DEF UTCDay
      <4>3. CASE "day" \notin schema
        BY <4>3 DEF Ats
      <4> QED
        BY <4>2, <4>3
    <3>2. given'[id] \in Days \cup {Null}
      BY <2>5 DEF Inserts, Ats, Days, TypeOK
    <3>3. TypeOK'
      BY <2>5, <3>1, <3>2 DEF Inserts, TypeOK, Stored
    <3> QED
      BY <2>5, <3>3 DEF Inserts, JobInOrder, VersionTellsSchema, RowsInTable, Stored
  <2>6. ASSUME NEW id \in HarvestIds, Deletes(id) PROVE Inv'
    <3>1. TypeOK'
      BY <2>6 DEF Deletes, TypeOK, Stored
    <3> QED
      BY <2>6, <3>1 DEF Deletes, JobInOrder, VersionTellsSchema, RowsInTable, Stored, TypeOK
  <2>7. CASE NotesFailure
    BY <2>7 DEF NotesFailure, TypeOK, JobInOrder, VersionTellsSchema, RowsInTable, Stored
  <2>8. CASE ListTables
    <3>1. "failures" \in schema => "harvests" \in schema
      BY PartsByVersion DEF VersionTellsSchema, Last
    <3>2. TypeOK'
      BY <2>8 DEF ListTables, ApplicationTables, Tables, TypeOK, Stored
    <3> QED
      BY <2>8, <3>1, <3>2 DEF ListTables, ApplicationTables, Tables, JobInOrder,
         VersionTellsSchema, RowsInTable, Stored
  <2>9. CASE Truncate
    <3>1. "schema_migrations" \notin listed
      BY <2>9 DEF Truncate, TypeOK
    <3>2. /\ UNCHANGED <<schema, version, dirty, job>> /\ listed' = Null
          /\ failures' \in BOOLEAN
          /\ \/ UNCHANGED <<rows, given>>
             \/ /\ rows' = [id \in HarvestIds |-> Null]
                /\ given' = [id \in HarvestIds |-> Null]
      <4>1. CASE listed \subseteq schema \cup {"schema_migrations"}
        BY <2>9, <3>1, <4>1 DEF Truncate, TypeOK
      <4>2. CASE ~(listed \subseteq schema \cup {"schema_migrations"})
        BY <2>9, <4>2 DEF Truncate, TypeOK
      <4> QED
        BY <4>1, <4>2
    <3>3. TypeOK'
      BY <3>2 DEF TypeOK, Stored
    <3> QED
      BY <3>2, <3>3 DEF JobInOrder, VersionTellsSchema, RowsInTable, Stored
  <2>10. CASE UNCHANGED vars
    BY <2>10 DEF vars, TypeOK, JobInOrder, VersionTellsSchema, RowsInTable, Stored
  <2> QED
    BY <2>1, <2>2, <2>3, <2>4, <2>5, <2>6, <2>7, <2>8, <2>9, <2>10 DEF Next
<1> QED
  BY <1>1, <1>2, PTL DEF Spec
-----------------------------------------------------------------------------
(* The theorems.                                                           *)

\* Every variable keeps its type.
THEOREM SchemaTypes == Spec => []TypeOK
  BY SchemaInvariant, PTL

\* The version golang-migrate keeps tells the schema that is there, exactly
\* when it is clean, to one file when it is dirty.
THEOREM VersionAlwaysTellsSchema == Spec => []VersionTellsSchema
  BY SchemaInvariant, PTL

\* No sequence of files, stopped or forced anywhere, moves a record to
\* another day (000004_*.sql).
THEOREM DaysAlwaysKept == Spec => []DaysKept
<1> USE MigrationConstants
<1>1. Init => DaysKept
  BY DEF Init, DaysKept, Stored
<1>2. /\ TypeOK /\ JobInOrder /\ VersionTellsSchema /\ DaysKept
      /\ [Next]_vars
      => DaysKept'
  <2> SUFFICES ASSUME TypeOK, JobInOrder, VersionTellsSchema, DaysKept, [Next]_vars,
                      NEW id \in HarvestIds, rows'[id] # Null, "harvested_at" \in schema'
               PROVE  given'[id] = IF "day" \in schema' THEN rows'[id].at ELSE UTCDay(rows'[id].at)
    BY DEF DaysKept, Stored
  <2>1. CASE Run
    <3>1. /\ schema' = SchemaAt[version] /\ version \in 0..Last /\ Number \in 1..Last
          /\ job = "up" => version = Number /\ schema = SchemaAt[Number - 1]
          /\ job = "down" => version = Number - 1 /\ schema = SchemaAt[Number]
          /\ job \in {"up", "down"}
      BY <2>1, RunReaches, FileOfJob DEF Run, TypeOK
    <3>2. /\ rows[id] # Null /\ "harvests" \notin File.drops
          /\ rows[id] \in [kind : Kinds, made : Instants, at : Nat \cup {Null}]
      BY <2>1, RunOnRow DEF TypeOK
    <3>3. version >= 2
      BY <3>1, PartsByVersion
    <3>4. /\ "day" \in schema' <=> version >= 4
          /\ job = "up" => ("day" \in schema <=> Number >= 5)
          /\ job = "down" => ("day" \in schema <=> Number >= 4)
      BY <3>1, PartsByVersion DEF Last
    <3>5. Number # 2 => /\ "harvested_at" \in schema /\ rows[id].at \in Nat
      <4>1. Number # 2 => "harvested_at" \in schema
        BY <3>1, <3>3, PartsByVersion DEF Last
      <4> QED
        BY <3>2, <4>1 DEF TypeOK, Stored
    <3>6. Number # 2 =>
            given[id] = IF "day" \in schema THEN rows[id].at ELSE UTCDay(rows[id].at)
      BY <3>2, <3>5 DEF DaysKept, Stored
    <3>7. CASE job = "up" /\ Number = 2
      <4>1. "day" \notin schema'
        BY <3>1, <3>4, <3>7
      <4>2. rows'[id] = [rows[id] EXCEPT !.at = rows[id].made] /\ given'[id] = UTCDay(rows[id].made)
        BY <2>1, <3>2, <3>7, RunOnRow
      <4>3. rows'[id].at = rows[id].made
        BY <3>2, <4>2
      <4> QED
        BY <4>1, <4>2, <4>3
    <3>8. CASE job = "up" /\ Number = 4
      <4>1. "day" \in schema' /\ "day" \notin schema
        BY <3>1, <3>4, <3>8
      <4>2. rows'[id] = [rows[id] EXCEPT !.at = UTCDay(rows[id].at)] /\ given'[id] = given[id]
        BY <2>1, <3>2, <3>8, RunOnRow
      <4>3. rows'[id].at = UTCDay(rows[id].at)
        BY <3>2, <4>2
      <4> QED
        BY <3>6, <3>8, <4>1, <4>2, <4>3
    <3>9. CASE job = "down" /\ Number = 4
      <4>1. UTCDay(2 * rows[id].at) = rows[id].at
        BY <3>5, <3>9 DEF UTCDay
      <4>2. "day" \notin schema' /\ "day" \in schema
        BY <3>1, <3>4, <3>9
      <4>3. rows'[id] = [rows[id] EXCEPT !.at = 2 * rows[id].at] /\ given'[id] = given[id]
        BY <2>1, <3>2, <3>9, RunOnRow
      <4>4. rows'[id].at = 2 * rows[id].at
        BY <3>2, <4>3
      <4> QED
        BY <3>6, <3>9, <4>1, <4>2, <4>3, <4>4
    <3>10. CASE Number \notin {2, 4}
      <4>1. "day" \in schema' <=> "day" \in schema
        BY <3>1, <3>4, <3>10
      <4>2. rows'[id] = rows[id] /\ given'[id] = given[id]
        BY <2>1, <3>2, <3>10, RunOnRow
      <4> QED
        BY <3>6, <3>10, <4>1, <4>2
    <3> QED
      BY <3>1, <3>3, <3>7, <3>8, <3>9, <3>10
  <2>2. ASSUME NEW i \in HarvestIds, NEW kind \in Kinds, NEW made \in Instants,
               NEW at \in Ats, Inserts(i, kind, made, at)
        PROVE  given'[id] = IF "day" \in schema' THEN rows'[id].at ELSE UTCDay(rows'[id].at)
    <3>1. "harvested_at" \in schema => at # Null
      <4>1. CASE "day" \in schema
        <5>1. PICK t \in Instants : at = t \div 2
          BY <4>1 DEF Ats, UTCDay
        <5> QED
          BY <5>1
      <4>2. CASE "day" \notin schema
        BY <4>2 DEF Ats
      <4> QED
        BY <4>1, <4>2
    <3> QED
      BY <2>2, <3>1 DEF Inserts, DaysKept, TypeOK, Stored
  <2>3. ASSUME NEW i \in HarvestIds, Deletes(i)
        PROVE  given'[id] = IF "day" \in schema' THEN rows'[id].at ELSE UTCDay(rows'[id].at)
    BY <2>3 DEF Deletes, DaysKept, TypeOK, Stored
  <2>4. CASE Truncate
    BY <2>4 DEF Truncate, DaysKept, Stored
  <2>5. CASE UNCHANGED <<schema, rows, given>>
    BY <2>5 DEF DaysKept, Stored
  <2> QED
    BY <2>1, <2>2, <2>3, <2>4, <2>5
    DEF Next, vars, Begin, Fails, Clean, Stop, ForceVersion, NotesFailure, ListTables
<1> QED
  BY <1>1, <1>2, SchemaInvariant, PTL DEF Spec

\* The only file the schema or the rows can stop is 000002 down
\* (000002_add_harvested_at_remove_product_unique.down.sql:5).
THEOREM DuplicatesAloneStopAFile == Spec => []OnlyDuplicatesStopAFile
<1>1. TypeOK /\ JobInOrder /\ RowsInTable => OnlyDuplicatesStopAFile
  <2> SUFFICES ASSUME TypeOK, JobInOrder, RowsInTable, job \in {"up", "down"},
                      ~Succeeds(File)
               PROVE  job = "down" /\ Number = 2 /\ Duplicates
    BY DEF OnlyDuplicatesStopAFile
  <2>1. CASE job = "up"
    <3>1. Number = 1 /\ Duplicates
      BY <2>1, FileOfJob, FilesMatch DEF Succeeds
    <3>2. "harvests" \notin schema
      BY <2>1, <3>1, FileOfJob, PartsByVersion DEF Last
    <3> QED
      BY <3>1, <3>2 DEF RowsInTable, Duplicates
  <2>2. CASE job = "down"
    BY <2>2, FileOfJob, FilesMatch DEF Succeeds
  <2> QED
    BY <2>1, <2>2
<1> QED
  BY <1>1, SchemaInvariant, PTL

\* dbclear empties every table it has listed or none (main.go of cmd/dbclear:
\* one TRUNCATE), whatever files run between its two statements.
THEOREM ClearsAllOrNothing == Spec => ClearIsAllOrNothing
<1>1. TypeOK /\ RowsInTable /\ [Next]_vars =>
        [listed # Null /\ listed' = Null =>
           \/ UNCHANGED <<rows, failures>>
           \/ /\ \A id \in HarvestIds : rows'[id] = Null
              /\ failures' => "failures" \notin listed]_vars
  <2> SUFFICES ASSUME TypeOK, RowsInTable, [Next]_vars, listed # Null, listed' = Null
               PROVE  \/ UNCHANGED <<rows, failures>>
                      \/ /\ \A id \in HarvestIds : rows'[id] = Null
                         /\ failures' => "failures" \notin listed
    OBVIOUS
  <2>1. Truncate
    BY DEF Next, Begin, Run, Fails, Clean, Stop, ForceVersion, Inserts, Deletes,
       NotesFailure, ListTables, vars
  <2>2. CASE "harvests" \in listed
    BY <2>1, <2>2 DEF Truncate
  <2>3. CASE "harvests" \notin listed
    <3>1. "failures" \notin listed
      BY <2>3 DEF RowsInTable
    <3>2. rows = [id \in HarvestIds |-> rows[id]] /\ failures \in BOOLEAN
      BY DEF TypeOK
    <3> QED
      BY <2>1, <2>3, <3>1, <3>2 DEF Truncate
  <2> QED
    BY <2>2, <2>3
<1> QED
  BY <1>1, SchemaInvariant, PTL DEF Spec, ClearIsAllOrNothing
=============================================================================
