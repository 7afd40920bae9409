--------------------------- MODULE HarvestRecords ---------------------------
(***************************************************************************)
(* What harvest-service promises its clients about records, said without   *)
(* calls, pauses or loops: every request takes effect at one instant       *)
(* between its arrival and its answer, on one record, one hive or one      *)
(* account at once; what it answers is true of the table at that instant;  *)
(* a request that reports a failure did all of its work or none.           *)
(*                                                                         *)
(* phase[r] is "open" from the arrival of a request to its effect, "done"  *)
(* while its answer is settled and not yet delivered, else "idle".         *)
(***************************************************************************)
EXTENDS HarvestRequests

VARIABLES rows, home, phase, call, reply

vars == <<rows, home, phase, call, reply>>

Init ==
  /\ rows \in StartingRows
  /\ home = HivesOf(rows)
  /\ phase = [r \in Requests |-> "idle"]
  /\ call = [r \in Requests |-> NoCall]
  /\ reply = [r \in Requests |-> NoReply]

Answer(r, code, record, ids) ==
  /\ phase' = [phase EXCEPT ![r] = "idle"]
  /\ reply' = [reply EXCEPT ![r] = Says(code, record, ids)]
  /\ UNCHANGED call

\* A request that took effect is answered so, or its client never learns.
Confirm(r, code, record, ids) ==
  \/ Answer(r, code, record, ids)
  \/ Answer(r, IF call[r].op = "erase" THEN "cleanup_failed" ELSE "internal_error",
            Null, {})

Begin(r, c) ==
  /\ phase[r] = "idle"
  /\ call' = [call EXCEPT ![r] = c]
  /\ phase' = [phase EXCEPT ![r] = IF Malformed(c) THEN "idle" ELSE "open"]
  /\ reply' = [reply EXCEPT ![r] =
                 IF Malformed(c) THEN Says("validation_error", Null, {}) ELSE NoReply]
  /\ UNCHANGED <<rows, home>>

Open(r, op) == phase[r] = "open" /\ call[r].op = op

\* Nothing is done for a caller who does not own the hive.
Owns(c) == Owner[c.hive] = c.user

Create(r) ==
  LET row == Row(call[r].hive, call[r].user, call[r].body) IN
  /\ Open(r, "create") /\ Owns(call[r])
  /\ \E id \in HarvestIds :
       /\ home[id] = Null
       /\ rows' = CreateRow(rows, id, row)
       /\ home' = [home EXCEPT ![id] = row.hive]
       /\ Confirm(r, "created", Record(id, row), {})

Get(r) ==
  LET c == call[r] IN
  /\ Open(r, "get") /\ Owns(c) /\ Found(rows, c.hive, c.id)
  /\ Answer(r, "ok", Record(c.id, rows[c.id]), {})
  /\ UNCHANGED <<rows, home>>

\* The record shown is the record as it now is in the table.
Update(r) ==
  LET c == call[r] IN
  /\ Open(r, "update") /\ Owns(c) /\ Found(rows, c.hive, c.id)
  /\ rows' = UpdateRow(rows, c.hive, c.id, c.body)
  /\ Confirm(r, "ok", Record(c.id, rows'[c.id]), {})
  /\ UNCHANGED home

Delete(r) ==
  LET c == call[r] IN
  /\ Open(r, "delete") /\ Owns(c) /\ Found(rows, c.hive, c.id)
  /\ rows' = DeleteRow(rows, c.hive, c.id)
  /\ \/ phase' = [phase EXCEPT ![r] = "done"] /\ UNCHANGED <<call, reply>>
     \/ Answer(r, "internal_error", Null, {})
  /\ UNCHANGED home

Finish(r) ==
  /\ phase[r] = "done"
  /\ Answer(r, "no_content", Null, {})
  /\ UNCHANGED <<rows, home>>

NotFound(r) ==
  LET c == call[r] IN
  /\ phase[r] = "open" /\ c.op \in {"get", "update", "delete"}
  /\ Owns(c) /\ ~Found(rows, c.hive, c.id)
  /\ Answer(r, "harvest_not_found", Null, {})
  /\ UNCHANGED <<rows, home>>

\* The whole hive at one instant.
Purge(r) ==
  LET h == call[r].hive IN
  /\ Open(r, "cascade") /\ Owns(call[r])
  /\ rows' = DeleteByHive(rows, h)
  /\ Confirm(r, "no_content", Null, IdsByHive(rows, h))
  /\ UNCHANGED home

\* The whole account at one instant.
Erase(r) ==
  /\ Open(r, "erase")
  /\ rows' = DeleteAllByUser(rows, call[r].user)
  /\ Confirm(r, "no_content", Null, {})
  /\ UNCHANGED home

\* Turned away or failed, with nothing done.
Refuse(r) ==
  /\ phase[r] = "open"
  /\ \E code \in
       CASE call[r].op = "erase" -> {"cleanup_failed"}
         [] call[r].op \in {"create", "update"} ->
              {"hive_not_found", "parent_resource_pro_locked", "internal_error"}
         [] OTHER -> {"hive_not_found", "internal_error"} :
       Answer(r, code, Null, {})
  /\ UNCHANGED <<rows, home>>

\* Everybody who was waiting is left without an answer.
Crash ==
  /\ phase' = [r \in Requests |-> "idle"]
  /\ reply' = [r \in Requests |->
                 IF phase[r] # "idle" THEN Says("lost", Null, {}) ELSE reply[r]]
  /\ UNCHANGED <<rows, home, call>>

Next ==
  \/ \E r \in Requests :
       \/ \E c \in Calls : Begin(r, c)
       \/ Create(r) \/ Get(r) \/ Update(r) \/ Delete(r) \/ Finish(r)
       \/ NotFound(r) \/ Purge(r) \/ Erase(r) \/ Refuse(r)
  \/ Crash

Spec == Init /\ [][Next]_vars
=============================================================================
