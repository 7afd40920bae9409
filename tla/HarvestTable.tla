---------------------------- MODULE HarvestTable ----------------------------
(***************************************************************************)
(* The harvests table and the SQL statements that                          *)
(* internal/repository/postgres/harvest_repository.go runs on it.  Each    *)
(* statement is atomic in PostgreSQL, so each is one operator from a table *)
(* to a table (or to what the statement returns).                          *)
(*                                                                         *)
(* A table t maps every harvest id to its row, or to Null when there is no *)
(* row with that primary key.  A row keeps hive_id, user_id (Null on rows  *)
(* written before migration 5) and body: product, amount, unit and         *)
(* harvested_at, the columns every write sets together.  created_at and    *)
(* updated_at are left out.                                                *)
(***************************************************************************)
CONSTANT Null

Row(h, u, b) == [hive |-> h, user |-> u, body |-> b]

\* Mutant: WHERE id = $1
FoundAnywhere(t, h, id) == t[id] # Null

\* WHERE id = $1 AND hive_id = $2
Found(t, h, id) == t[id] # Null /\ t[id].hive = h

\* WHERE hive_id = $1, the ids only
IdsByHive(t, h) == {id \in DOMAIN t : Found(t, h, id)}

\* WHERE user_id = $1; a NULL user_id is equal to nothing
IdsByUser(t, u) == {id \in DOMAIN t : t[id] # Null /\ t[id].user = u}

DeleteRows(t, ids) == [id \in DOMAIN t |-> IF id \in ids THEN Null ELSE t[id]]

CreateRow(t, id, row) == [t EXCEPT ![id] = row]

\* Mutant: INSERT ... ON CONFLICT DO UPDATE
UpsertRow(t, h, id, b) == [t EXCEPT ![id] = Row(h, Null, b)]

\* UPDATE ... WHERE id AND hive_id: user_id and hive_id are not among the
\* columns it sets, and a row that is gone is not written.
UpdateRow(t, h, id, b) ==
  IF Found(t, h, id) THEN [t EXCEPT ![id] = Row(h, t[id].user, b)] ELSE t

DeleteRow(t, h, id) ==
  IF Found(t, h, id) THEN DeleteRows(t, {id}) ELSE t

DeleteByHive(t, h) == DeleteRows(t, IdsByHive(t, h))

DeleteAllByUser(t, u) == DeleteRows(t, IdsByUser(t, u))
=============================================================================
