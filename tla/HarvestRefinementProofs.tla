---------------------- MODULE HarvestRefinementProofs ----------------------
(***************************************************************************)
(* HarvestService implements HarvestRecords, for every value of the        *)
(* constants: each initial state is one of the abstract specification, and *)
(* each step is one of its steps or leaves its variables as they are.      *)
(*                                                                         *)
(* A request takes effect when its one statement on the table commits (for *)
(* a refusal: when it is answered).  Verify that goes on, Load, ListIDs    *)
(* and the turns of the cascade's loop are stutters.  What makes this true *)
(* is Control, by which the statement that runs is the one of the          *)
(* operation asked for and the record Update shows is of the hive its path *)
(* names, and Admitted, by which the caller owns that hive.                *)
(***************************************************************************)
EXTENDS HarvestServiceProofs

\* The phase of a request that goes from one call to another, or ends.
LEMMA PhaseStep ==
  ASSUME TypeOK, NEW r \in Requests, NEW step, pc' = [pc EXCEPT ![r] = step]
  PROVE  /\ step = "idle" => phaseBar' = [phaseBar EXCEPT ![r] = "idle"]
         /\ step = "cleanup" => phaseBar' = [phaseBar EXCEPT ![r] = "done"]
         /\ step \notin {"idle", "cleanup"} => phaseBar' = [phaseBar EXCEPT ![r] = "open"]
  BY DEF phaseBar, TypeOK, RequestTypeOK

\* An answer of the service is an answer of the record store.
LEMMA AnswersAlike ==
  ASSUME TypeOK, NEW r \in Requests, NEW code, NEW record, NEW ids,
         Answer(r, code, record, ids)
  PROVE  Abstract!Answer(r, code, record, ids)
<1>1. phaseBar' = [phaseBar EXCEPT ![r] = "idle"]
  BY PhaseStep DEF Answer
<1> QED
  BY <1>1 DEF Answer, Abstract!Answer, Says, Abstract!Says

\* The statement took effect, whether or not its result reaches the caller.
LEMMA ConfirmsAlike ==
  ASSUME TypeOK, NEW r \in Requests, NEW code, NEW record, NEW ids,
         AnswerOrError(r, code, record, ids), call[r].op # "erase"
  PROVE  Abstract!Confirm(r, code, record, ids)
  BY AnswersAlike DEF AnswerOrError, Abstract!Confirm

\* A step that leaves the table, the calls, the answers and the phases alone
\* is a stutter of the record store.
LEMMA Stutters ==
  ASSUME TypeOK, UNCHANGED <<rows, home, call, reply>>,
         \/ UNCHANGED pc
         \/ \E r \in Requests : \E step :
              /\ pc[r] \notin {"idle", "cleanup"} /\ step \notin {"idle", "cleanup"}
              /\ pc' = [pc EXCEPT ![r] = step]
  PROVE  UNCHANGED Abstract!vars
<1>1. CASE UNCHANGED pc
  BY <1>1 DEF phaseBar, Abstract!vars
<1>2. ASSUME NEW r \in Requests, NEW step,
             pc[r] \notin {"idle", "cleanup"}, step \notin {"idle", "cleanup"},
             pc' = [pc EXCEPT ![r] = step]
      PROVE  UNCHANGED phaseBar
  BY <1>2 DEF phaseBar, TypeOK, RequestTypeOK
<1> QED
  BY <1>1, <1>2 DEF Abstract!vars

\* A request that is over before its statement ran is refused.
LEMMA Refused ==
  ASSUME TypeOK, NEW r \in Requests, NEW code,
         pc[r] \notin {"idle", "cleanup"},
         call[r].op = "erase" => code = "cleanup_failed",
         call[r].op # "erase" =>
           code \in {"hive_not_found", "internal_error"}
             \cup IF call[r].op \in {"create", "update"}
                  THEN {"parent_resource_pro_locked"} ELSE {},
         Answer(r, code, Null, {}), UNCHANGED <<rows, home>>
  PROVE  Abstract!Refuse(r)
<1>1. phaseBar[r] = "open"
  BY DEF phaseBar
<1> QED
  BY <1>1, AnswersAlike DEF Abstract!Refuse

\* An operation that does not find its row says so and does nothing.
LEMMA FoundNothing ==
  ASSUME TypeOK, NEW r \in Requests,
         pc[r] \notin {"idle", "cleanup"}, call[r].op \in {"get", "update", "delete"},
         Owner[call[r].hive] = call[r].user,
         ~Found(rows, call[r].hive, call[r].id),
         Answer(r, "harvest_not_found", Null, {}), UNCHANGED <<rows, home>>
  PROVE  Abstract!NotFound(r)
<1>1. phaseBar[r] = "open"
  BY DEF phaseBar
<1> QED
  BY <1>1, AnswersAlike DEF Abstract!NotFound, Abstract!Owns, Found, Abstract!Found

\* Each record request behaves as if it had its whole effect at one instant,
\* between its arrival and its answer, or none (service.go: Create to
\* DeleteAllByUser, without lock or transaction around their calls).
THEOREM ImplementsRecords == Spec => RecordsSpec
<1> USE DEF Abstract!Row, Row, Abstract!Found, Found, Abstract!Record, Record
<1>1. Init => Abstract!Init
  BY DEF Init, Abstract!Init, phaseBar, StartingRows, Abstract!StartingRows,
     HivesOf, Abstract!HivesOf, NoReply, Abstract!NoReply, Says, Abstract!Says,
     NoCall, Abstract!NoCall
<1>2. TypeOK /\ Control /\ Admitted /\ [Next]_vars => [Abstract!Next]_(Abstract!vars)
  <2> SUFFICES ASSUME TypeOK, Control, Admitted, [Next]_vars
               PROVE  Abstract!Next \/ UNCHANGED Abstract!vars
    OBVIOUS
  <2>1. ASSUME NEW r \in Requests, NEW c \in Calls, Begin(r, c)
        PROVE  Abstract!Begin(r, c)
    <3>1. pc' = [pc EXCEPT ![r] = IF Malformed(c) THEN "idle"
                                  ELSE IF c.op = "erase" THEN "erase" ELSE "verify"]
      BY <2>1 DEF Begin, GoTo, TypeOK, RequestTypeOK
    <3>2. phaseBar' = [phaseBar EXCEPT ![r] = IF Malformed(c) THEN "idle" ELSE "open"]
      <4>1. CASE Malformed(c)
        BY <3>1, <4>1, PhaseStep
      <4>2. CASE ~Malformed(c) /\ c.op = "erase"
        BY <3>1, <4>2, PhaseStep
      <4>3. CASE ~Malformed(c) /\ c.op # "erase"
        <5>1. pc' = [pc EXCEPT ![r] = "verify"]
          BY <3>1, <4>3
        <5>2. "verify" \notin {"idle", "cleanup"}
          OBVIOUS
        <5> QED
          BY <4>3, <5>1, <5>2, PhaseStep, Zenon
      <4> QED
        BY <4>1, <4>2, <4>3
    <3>3. phaseBar[r] = "idle"
      BY <2>1 DEF Begin, phaseBar
    <3> QED
      BY <2>1, <3>2, <3>3
      DEF Begin, Abstract!Begin, Malformed, Abstract!Malformed, Says, Abstract!Says,
          NoReply, Abstract!NoReply
  <2>2. ASSUME NEW r \in Requests, Verify(r)
        PROVE  Abstract!Refuse(r) \/ UNCHANGED Abstract!vars
    <3>1. call[r].op \in {"create", "get", "update", "delete", "cascade"}
      BY <2>2, CallFields DEF Verify, Control, OpNames, InFlight
    <3>2. CASE Answer(r, "hive_not_found", Null, {})
      BY <2>2, <3>1, <3>2, Refused DEF Verify
    <3>3. CASE /\ NeedsWritableHive(call[r].op)
               /\ Answer(r, "parent_resource_pro_locked", Null, {})
      BY <2>2, <3>1, <3>3, Refused DEF Verify, NeedsWritableHive
    <3>4. CASE GoTo(r, AfterVerify[call[r].op]) /\ UNCHANGED <<call, reply>>
      <4>1. AfterVerify[call[r].op] \notin {"idle", "cleanup"}
        BY <3>1 DEF AfterVerify
      <4> QED
        BY <2>2, <3>4, <4>1, Stutters DEF Verify, GoTo
    <3> QED
      BY <2>2, <3>2, <3>3, <3>4 DEF Verify
  <2>3. ASSUME NEW r \in Requests, Insert(r) PROVE Abstract!Create(r)
    <3>1. /\ call[r].op = "create" /\ Owner[call[r].hive] = call[r].user
          /\ phaseBar[r] = "open"
      BY <2>3 DEF Insert, Control, Admitted, phaseBar
    <3> QED
      BY <2>3, <3>1, ConfirmsAlike
      DEF Insert, Fresh, Abstract!Create, Abstract!Open, Abstract!Owns,
          CreateRow, Abstract!CreateRow
  <2>4. ASSUME NEW r \in Requests, Get(r) PROVE Abstract!Get(r) \/ Abstract!NotFound(r)
    <3>1. /\ call[r].op = "get" /\ Owner[call[r].hive] = call[r].user
          /\ phaseBar[r] = "open"
      BY <2>4 DEF Get, Control, Admitted, phaseBar
    <3>2. CASE Found(rows, call[r].hive, call[r].id)
      BY <2>4, <3>1, <3>2, AnswersAlike
      DEF Get, Abstract!Get, Abstract!Open, Abstract!Owns
    <3>3. CASE ~Found(rows, call[r].hive, call[r].id)
      BY <2>4, <3>1, <3>3, FoundNothing DEF Get
    <3> QED
      BY <3>2, <3>3
  <2>5. ASSUME NEW r \in Requests, Load(r)
        PROVE  Abstract!NotFound(r) \/ UNCHANGED Abstract!vars
    <3>1. call[r].op = "update" /\ Owner[call[r].hive] = call[r].user
      BY <2>5 DEF Load, Control, Admitted
    <3>2. CASE GoTo(r, "update") /\ UNCHANGED <<call, reply>>
      BY <2>5, <3>2, Stutters DEF Load, GoTo
    <3>3. CASE /\ ~Found(rows, call[r].hive, call[r].id)
               /\ Answer(r, "harvest_not_found", Null, {})
      BY <2>5, <3>1, <3>3, FoundNothing DEF Load
    <3> QED
      BY <2>5, <3>2, <3>3 DEF Load
  <2>6. ASSUME NEW r \in Requests, Update(r)
        PROVE  Abstract!Update(r) \/ Abstract!NotFound(r)
    <3> DEFINE c == call[r]
               h == Row(loaded[r].hive, loaded[r].user, c.body)
    <3>1. /\ c.op = "update" /\ Owner[c.hive] = c.user
          /\ phaseBar[r] = "open" /\ h.hive = c.hive /\ h.body = c.body
          /\ c.id \in HarvestIds
      BY <2>6, CallFields DEF Update, Control, Admitted, phaseBar, InFlight
    <3>2. rows' = UpdateRow(rows, c.hive, c.id, c.body) /\ UNCHANGED home
      BY <2>6, <3>1 DEF Update
    <3>3. CASE Found(rows, c.hive, c.id)
      <4>1. rows'[c.id] = Row(c.hive, rows[c.id].user, c.body)
        BY <3>1, <3>2, <3>3 DEF UpdateRow, TypeOK, TableTypeOK
      <4>2. Record(c.id, h) = Record(c.id, rows'[c.id])
        BY <3>1, <4>1
      <4>3. AnswerOrError(r, "ok", Record(c.id, rows'[c.id]), {})
        BY <2>6, <3>1, <3>3, <4>2 DEF Update
      <4>4. Abstract!Confirm(r, "ok", Record(c.id, rows'[c.id]), {})
        BY <3>1, <4>3, ConfirmsAlike
      <4> QED
        BY <3>1, <3>2, <3>3, <4>4
        DEF Abstract!Update, Abstract!Open, Abstract!Owns, UpdateRow, Abstract!UpdateRow
    <3>4. CASE ~Found(rows, c.hive, c.id)
      BY <2>6, <3>1, <3>2, <3>4, FoundNothing DEF Update, UpdateRow
    <3> QED
      BY <3>3, <3>4
  <2>7. ASSUME NEW r \in Requests, Delete(r)
        PROVE  Abstract!Delete(r) \/ Abstract!NotFound(r)
    <3> DEFINE c == call[r]
    <3>1. /\ c.op = "delete" /\ Owner[c.hive] = c.user /\ phaseBar[r] = "open"
      BY <2>7 DEF Delete, Control, Admitted, phaseBar
    <3>2. rows' = Abstract!DeleteRow(rows, c.hive, c.id) /\ UNCHANGED home
      BY <2>7 DEF Delete, DeleteRow, Abstract!DeleteRow, DeleteRows, Abstract!DeleteRows
    <3>3. CASE Found(rows, c.hive, c.id) /\ GoTo(r, "cleanup") /\ UNCHANGED <<call, reply>>
      <4>1. phaseBar' = [phaseBar EXCEPT ![r] = "done"]
        BY <3>3, PhaseStep DEF GoTo
      <4> QED
        BY <3>1, <3>2, <3>3, <4>1 DEF Abstract!Delete, Abstract!Open, Abstract!Owns
    <3>4. CASE Found(rows, c.hive, c.id) /\ Answer(r, "internal_error", Null, {})
      BY <3>1, <3>2, <3>4, AnswersAlike DEF Abstract!Delete, Abstract!Open, Abstract!Owns
    <3>5. CASE ~Found(rows, c.hive, c.id) /\ Answer(r, "harvest_not_found", Null, {})
      BY <2>7, <3>1, <3>5, FoundNothing DEF Delete, DeleteRow
    <3> QED
      BY <2>7, <3>3, <3>4, <3>5 DEF Delete
  <2>8. ASSUME NEW r \in Requests, Cleanup(r) PROVE Abstract!Finish(r)
    <3>1. phaseBar[r] = "done"
      BY <2>8 DEF Cleanup, phaseBar
    <3> QED
      BY <2>8, <3>1, AnswersAlike DEF Cleanup, Abstract!Finish
  <2>9. ASSUME NEW r \in Requests, ListIDs(r) PROVE UNCHANGED Abstract!vars
    BY <2>9, Stutters DEF ListIDs, GoTo
  <2>10. ASSUME NEW r \in Requests, CancelNext(r)
         PROVE  Abstract!Refuse(r) \/ UNCHANGED Abstract!vars
    <3>1. call[r].op = "cascade"
      BY <2>10 DEF CancelNext, Control
    <3>2. CASE UNCHANGED <<pc, call, reply>>
      BY <2>10, <3>2, Stutters DEF CancelNext
    <3>3. CASE Answer(r, "internal_error", Null, {})
      BY <2>10, <3>1, <3>3, Refused DEF CancelNext
    <3> QED
      BY <2>10, <3>2, <3>3 DEF CancelNext
  <2>11. ASSUME NEW r \in Requests, Purge(r) PROVE Abstract!Purge(r)
    <3>1. /\ call[r].op = "cascade" /\ Owner[call[r].hive] = call[r].user
          /\ phaseBar[r] = "open"
      BY <2>11 DEF Purge, Control, Admitted, phaseBar
    <3>2. /\ DeleteByHive(rows, call[r].hive) = Abstract!DeleteByHive(rows, call[r].hive)
          /\ IdsByHive(rows, call[r].hive) = Abstract!IdsByHive(rows, call[r].hive)
      BY DEF DeleteByHive, Abstract!DeleteByHive, IdsByHive, Abstract!IdsByHive,
         DeleteRows, Abstract!DeleteRows
    <3> QED
      BY <2>11, <3>1, <3>2, ConfirmsAlike
      DEF Purge, Abstract!Purge, Abstract!Open, Abstract!Owns
  <2>12. ASSUME NEW r \in Requests, Erase(r) PROVE Abstract!Erase(r)
    <3>1. call[r].op = "erase" /\ phaseBar[r] = "open"
      BY <2>12 DEF Erase, Control, phaseBar
    <3>2. rows' = Abstract!DeleteAllByUser(rows, call[r].user)
      BY <2>12 DEF Erase, DeleteAllByUser, Abstract!DeleteAllByUser, IdsByUser,
         Abstract!IdsByUser, DeleteRows, Abstract!DeleteRows
    <3> QED
      BY <2>12, <3>1, <3>2, AnswersAlike
      DEF Erase, Abstract!Erase, Abstract!Open, Abstract!Confirm
  <2>13. ASSUME NEW r \in Requests, CallFails(r) PROVE Abstract!Refuse(r)
    <3>1. pc[r] \notin {"idle", "cleanup"}
      BY <2>13 DEF CallFails, InFlight, Callee
    <3>2. pc[r] = "erase" <=> call[r].op = "erase"
      BY <2>13, <3>1 DEF Control, TypeOK, RequestTypeOK, PCs
    <3> QED
      BY <2>13, <3>1, <3>2, Refused DEF CallFails
  <2>14. CASE Crash
    <3>1. phaseBar' = [r \in Requests |-> "idle"]
      BY <2>14 DEF Crash, phaseBar
    <3>2. \A r \in Requests : InFlight(r) <=> phaseBar[r] # "idle"
      BY DEF InFlight, phaseBar
    <3>3. Abstract!Crash
      BY <2>14, <3>1, <3>2 DEF Crash, Abstract!Crash, Says, Abstract!Says
    <3> QED
      BY <3>3 DEF Abstract!Next
  <2>15. CASE UNCHANGED <<rows, home, pc, call, reply>>
    BY <2>15, Stutters
  <2>16. Calls = Abstract!Calls
    BY DEF Calls, Abstract!Calls
  <2> QED
    BY StepKinds, <2>1, <2>2, <2>3, <2>4, <2>5, <2>6, <2>7, <2>8, <2>9, <2>10,
       <2>11, <2>12, <2>13, <2>14, <2>15, <2>16
    DEF Abstract!Next, HiveMoves, ExistsCheck, ReminderIsStored, CloseAccount, vars, local
<1> QED
  BY <1>1, <1>2, TypedControl, AdmittedAlways, PTL
  DEF Spec, RecordsSpec, Abstract!Spec
=============================================================================
