-------------------------- MODULE HarvestRequests --------------------------
(***************************************************************************)
(* What clients ask of harvest-service and what they hear: the vocabulary  *)
(* shared by the abstract record store (HarvestRecords) and the service    *)
(* (HarvestService).                                                       *)
(***************************************************************************)
EXTENDS HarvestTable

CONSTANTS
  Requests,     \* concurrent request slots; a slot is reused after its answer
  Users,
  HiveIds,
  HarvestIds,   \* bound: at most this many uuids are ever generated
  Bodies,       \* request bodies clients send
  ValidBodies,  \* those with no field error (HarvestDomain!Validate)
  Owner,        \* hive-service's owner of each hive; never transferred
  LegacyIds,    \* rows there at the start with a NULL user_id
  Ops           \* the operations offered

OpNames == {"create", "get", "update", "delete", "cascade", "erase"}

Rows == [hive : HiveIds, user : Users \cup {Null}, body : Bodies]

\* newResponse: the fields of a record a client gets to see (not user_id).
Records == [id : HarvestIds, hive : HiveIds, body : Bodies]

ASSUME RequestConstants ==
  /\ ValidBodies \subseteq Bodies
  /\ Null \notin Users \cup HiveIds \cup HarvestIds \cup Bodies
  /\ Null \notin Rows \cup Records
  /\ Owner \in [HiveIds -> Users]
  /\ LegacyIds \subseteq HarvestIds
  /\ Ops \subseteq OpNames

NoCall == [op |-> "none", user |-> Null, hive |-> Null, id |-> Null, body |-> Null]

\* The routes: which path ids and body each operation carries.
Calls ==
  {c \in [op : {"create"}, user : Users, hive : HiveIds, id : {Null}, body : Bodies]
    \cup [op : {"get", "delete"}, user : Users, hive : HiveIds, id : HarvestIds, body : {Null}]
    \cup [op : {"update"}, user : Users, hive : HiveIds, id : HarvestIds, body : Bodies]
    \cup [op : {"cascade"}, user : Users, hive : HiveIds, id : {Null}, body : {Null}]
    \cup [op : {"erase"}, user : Users, hive : {Null}, id : {Null}, body : {Null}] :
   c.op \in Ops}

\* Mutant: only POST bodies are validated.
MalformedCreate(c) == c.op = "create" /\ c.body \notin ValidBodies

\* decodeAndValidate comes before any other work.
Malformed(c) == c.op \in {"create", "update"} /\ c.body \notin ValidBodies

\* Mutant: the response carries the owner.
RecordWithOwner(id, row) ==
  [id |-> id, hive |-> row.hive, body |-> row.body, user |-> row.user]

Record(id, row) == [id |-> id, hive |-> row.hive, body |-> row.body]

\* An answer: its code, the record in its body, and the ids the service's
\* DeleteByHive returned to the handler.
Says(code, record, ids) == [code |-> code, record |-> record, ids |-> ids]
NoReply == Says("none", Null, {})

\* The table may start with rows from before migration 5.
StartingRows ==
  {t \in [HarvestIds -> {Null} \cup {Row(h, Null, b) : h \in HiveIds, b \in ValidBodies}] :
     {id \in HarvestIds : t[id] # Null} = LegacyIds}
HivesOf(t) == [id \in HarvestIds |-> IF t[id] = Null THEN Null ELSE t[id].hive]
=============================================================================
