------------------------ MODULE HarvestServiceProofs ------------------------
(***************************************************************************)
(* Proofs, for every value of the constants, of the safety of              *)
(* HarvestService.                                                         *)
(*                                                                         *)
(* The inductive invariant is built in layers, each proved on top of the   *)
(* ones before it:                                                         *)
(*   TypeOK and Control  where a request is says what it is (TypedControl) *)
(*   Admitted            past Verify, the caller owns the hive and it was  *)
(*                       writable if it had to be (AdmittedAlways)         *)
(*   OwnerStamped, RowsWellFormed, DisclosureOnlyToOwner, NoResurrection,  *)
(*   LiveEntitlement     from these by RowChange, the one case split on    *)
(*                       what a step can do to a row                       *)
(*   HomesKept, OwnTodo  what a request cancels was under its own hive,    *)
(*                       and what a Delete is to cancel it has removed     *)
(*                       (RemovedStep); with RowChange, LeftOnlyIfAsked    *)
(*   PresentIsOwn, CascadeCovers  a row a cascade has seen is listed or    *)
(*                       already cancelled until it is purged              *)
(***************************************************************************)
EXTENDS HarvestService, TLAPS

\* A call carries what its route says and nothing else.
LEMMA CallFields ==
  ASSUME NEW c \in Calls
  PROVE  /\ c.op \in OpNames /\ c.user \in Users
         /\ c.op # "erase" => c.hive \in HiveIds
         /\ c.op \in {"get", "update", "delete"} => c.id \in HarvestIds
         /\ c.op \in {"create", "update"} => c.body \in Bodies
  BY RequestConstants DEF Calls, OpNames

\* Ending a request leaves its variables well typed.
LEMMA AnswerType ==
  ASSUME RequestTypeOK, NEW r \in Requests, NEW code \in Codes,
         NEW record \in Records \cup {Null}, NEW ids \in SUBSET HarvestIds,
         Answer(r, code, record, ids)
  PROVE  RequestTypeOK'
  BY DEF RequestTypeOK, Answer, Says, PCs

\* Going on to the next call does, too.
LEMMA GoToType ==
  ASSUME RequestTypeOK, NEW r \in Requests, NEW step \in PCs,
         GoTo(r, step), UNCHANGED <<call, loaded, todo, reply, seen>>
  PROVE  RequestTypeOK'
  BY DEF RequestTypeOK, GoTo

\* A record made of a row of the table, or of a new one, is a record.
LEMMA RecordType ==
  ASSUME NEW id \in HarvestIds, NEW row \in Rows
  PROVE  Record(id, row) \in Records
  BY DEF Record, Records, Rows

\* Every variable keeps its type, and every request is where its operation
\* leads (service.go, handler.go: the order of the calls in each function).
LEMMA TypedControl == Spec => [](TypeOK /\ Control)
<1>1. Init => TypeOK /\ Control
  <2> SUFFICES ASSUME Init PROVE TypeOK /\ Control
    OBVIOUS
  <2>1. rows \in [HarvestIds -> Rows \cup {Null}]
    BY RequestConstants DEF Init, StartingRows, Row, Rows
  <2>2. home \in [HarvestIds -> HiveIds \cup {Null}]
    BY <2>1 DEF Init, HivesOf, Rows
  <2>3. reply \in [Requests -> [code : Codes, record : Records \cup {Null},
                                ids : SUBSET HarvestIds]]
    BY DEF Init, NoReply, Says, Codes
  <2>4. TypeOK
    BY <2>1, <2>2, <2>3, ServiceConstants
    DEF Init, TypeOK, TableTypeOK, RequestTypeOK, HistoryTypeOK, ExternalTypeOK, PCs
  <2>5. Control
    BY DEF Init, Control, InFlight
  <2> QED
    BY <2>4, <2>5
<1>2. TypeOK /\ Control /\ [Next]_vars => TypeOK' /\ Control'
  <2> SUFFICES ASSUME TypeOK, Control, [Next]_vars PROVE TypeOK' /\ Control'
    OBVIOUS
  <2> USE DEF TypeOK
  <2>1. ASSUME NEW r \in Requests, NEW c \in Calls, Begin(r, c)
        PROVE  TypeOK' /\ Control'
    <3>1. RequestTypeOK'
      <4>1. /\ call' \in [Requests -> Calls \cup {NoCall}]
            /\ reply' \in [Requests -> [code : Codes, record : Records \cup {Null},
                                        ids : SUBSET HarvestIds]]
        BY <2>1 DEF RequestTypeOK, Begin, NoReply, Says, Codes
      <4>2. pc' \in [Requests -> PCs]
        BY <2>1 DEF RequestTypeOK, Begin, GoTo, PCs
      <4>3. seen' \in [Requests -> SUBSET {"writable", "readonly", "gone"}]
        BY <2>1, CallFields DEF RequestTypeOK, ExternalTypeOK, Begin
      <4> QED
        BY <2>1, <4>1, <4>2, <4>3 DEF RequestTypeOK, Begin
    <3>2. HistoryTypeOK'
      <4>1. IdsByHive(rows, c.hive) \in SUBSET HarvestIds
        BY DEF TableTypeOK, IdsByHive
      <4> QED
        BY <2>1, <4>1 DEF HistoryTypeOK, Begin
    <3>3. Control'
      BY <2>1 DEF Control, Begin, GoTo, InFlight, Malformed, RequestTypeOK
    <3> QED
      BY <2>1, <3>1, <3>2, <3>3 DEF Begin, external, TableTypeOK, ExternalTypeOK
  <2>2. ASSUME NEW r \in Requests, Verify(r) PROVE TypeOK' /\ Control'
    <3>1. call[r].op \in {"create", "get", "update", "delete", "cascade"}
      BY <2>2, CallFields DEF Verify, Control, OpNames, InFlight
    <3>2. RequestTypeOK'
      <4>1. CASE \E code \in {"hive_not_found", "parent_resource_pro_locked"} :
                   Answer(r, code, Null, {})
        BY <4>1, AnswerType DEF Codes
      <4>2. CASE /\ GoTo(r, AfterVerify[call[r].op])
                 /\ UNCHANGED <<call, loaded, todo, reply, seen>>
        BY <3>1, <4>2, GoToType DEF AfterVerify, PCs
      <4> QED
        BY <2>2, <4>1, <4>2 DEF Verify
    <3>3. Control'
      BY <2>2, <3>1 DEF Verify, Control, InFlight, Malformed, RequestTypeOK,
         Answer, GoTo, AfterVerify
    <3> QED
      BY <2>2, <3>2, <3>3
      DEF Verify, external, TableTypeOK, HistoryTypeOK, ExternalTypeOK
  <2>3. ASSUME NEW r \in Requests, Insert(r) PROVE TypeOK' /\ Control'
    <3> DEFINE row == Row(call[r].hive, call[r].user, call[r].body)
    <3>1. row \in Rows
      BY <2>3, CallFields DEF Insert, Control, InFlight, Row, Rows
    <3>2. PICK id \in HarvestIds :
            /\ rows' = CreateRow(rows, id, row)
            /\ home' = [home EXCEPT ![id] = row.hive]
            /\ AnswerOrError(r, "created", Record(id, row), {})
      BY <2>3 DEF Insert, Fresh
    <3>3. TableTypeOK'
      BY <3>1, <3>2 DEF TableTypeOK, CreateRow, Rows
    <3>4. RequestTypeOK'
      BY <3>1, <3>2, AnswerType, RecordType DEF AnswerOrError, Codes
    <3>5. Control'
      BY <3>2 DEF AnswerOrError, Answer, Control, InFlight, RequestTypeOK
    <3> QED
      BY <2>3, <3>3, <3>4, <3>5 DEF Insert, external, HistoryTypeOK, ExternalTypeOK
  <2>4. ASSUME NEW r \in Requests, Get(r) PROVE TypeOK' /\ Control'
    <3>1. call[r].id \in HarvestIds
      BY <2>4, CallFields DEF Get, Control, InFlight
    <3>2. RequestTypeOK'
      BY <2>4, <3>1, AnswerType, RecordType DEF Get, Found, TableTypeOK, Codes
    <3>3. Control'
      BY <2>4 DEF Get, Answer, Control, InFlight, RequestTypeOK
    <3> QED
      BY <2>4, <3>2, <3>3 DEF Get, external, TableTypeOK, HistoryTypeOK, ExternalTypeOK
  <2>5. ASSUME NEW r \in Requests, Load(r) PROVE TypeOK' /\ Control'
    <3>1. call[r].id \in HarvestIds
      BY <2>5, CallFields DEF Load, Control, InFlight
    <3>2. CASE ~Found(rows, call[r].hive, call[r].id)
      <4>1. Answer(r, "harvest_not_found", Null, {})
        BY <2>5, <3>2 DEF Load
      <4>2. RequestTypeOK'
        BY <4>1, AnswerType DEF Codes
      <4>3. Control'
        BY <4>1 DEF Answer, Control, InFlight, RequestTypeOK
      <4> QED
        BY <2>5, <4>2, <4>3
        DEF Load, external, TableTypeOK, HistoryTypeOK, ExternalTypeOK
    <3>3. CASE Found(rows, call[r].hive, call[r].id)
      <4>1. /\ pc[r] = "load" /\ GoTo(r, "update")
            /\ loaded' = [loaded EXCEPT ![r] = rows[call[r].id]]
            /\ UNCHANGED <<rows, home, call, todo, reply, seen, cancelled, present, removed, external>>
        BY <2>5, <3>3 DEF Load
      <4>2. rows[call[r].id] \in Rows /\ rows[call[r].id].hive = call[r].hive
        BY <3>1, <3>3 DEF Found, TableTypeOK
      <4>3. RequestTypeOK'
        BY <4>1, <4>2 DEF GoTo, RequestTypeOK, PCs
      <4>4. Control'
        BY <3>3, <4>1, <4>2 DEF GoTo, Found, Control, InFlight, RequestTypeOK, Malformed
      <4> QED
        BY <4>1, <4>3, <4>4 DEF external, TableTypeOK, HistoryTypeOK, ExternalTypeOK
    <3> QED
      BY <3>2, <3>3
  <2>6. ASSUME NEW r \in Requests, Update(r) PROVE TypeOK' /\ Control'
    <3> DEFINE h == Row(loaded[r].hive, loaded[r].user, call[r].body)
    <3>1. h \in Rows /\ call[r].id \in HarvestIds
      BY <2>6, CallFields DEF Update, Control, InFlight, Row, Rows, RequestTypeOK
    <3>2. TableTypeOK'
      BY <2>6, <3>1 DEF Update, UpdateRow, Found, Row, Rows, TableTypeOK
    <3>3. PICK code \in Codes, record \in Records \cup {Null} : Answer(r, code, record, {})
      BY <2>6, <3>1, RecordType DEF Update, AnswerOrError, Codes
    <3>4. RequestTypeOK'
      BY <3>3, AnswerType
    <3>5. Control'
      BY <3>3 DEF Answer, Control, InFlight, RequestTypeOK
    <3> QED
      BY <2>6, <3>2, <3>4, <3>5 DEF Update, external, HistoryTypeOK, ExternalTypeOK
  <2>7. ASSUME NEW r \in Requests, Delete(r) PROVE TypeOK' /\ Control'
    <3>1. TableTypeOK' /\ HistoryTypeOK'
      BY <2>7 DEF Delete, DeleteRow, DeleteRows, Removes, TableTypeOK, HistoryTypeOK
    <3>2. CASE \E code \in {"internal_error", "harvest_not_found"} :
                 Answer(r, code, Null, {})
      <4>1. RequestTypeOK'
        BY <3>2, AnswerType DEF Codes
      <4>2. Control'
        BY <3>2 DEF Answer, Control, InFlight, RequestTypeOK
      <4> QED
        BY <2>7, <3>1, <4>1, <4>2 DEF Delete, external, ExternalTypeOK
    <3>3. CASE /\ GoTo(r, "cleanup")
               /\ UNCHANGED <<call, loaded, todo, reply, seen>>
      <4>1. RequestTypeOK'
        BY <3>3, GoToType DEF PCs
      <4>2. Control'
        BY <2>7, <3>3 DEF Delete, GoTo, Control, InFlight, RequestTypeOK, Malformed
      <4> QED
        BY <2>7, <3>1, <4>1, <4>2 DEF Delete, external, ExternalTypeOK
    <3> QED
      BY <2>7, <3>2, <3>3 DEF Delete
  <2>8. ASSUME NEW r \in Requests, Cleanup(r) PROVE TypeOK' /\ Control'
    <3>1. Answer(r, "no_content", Null, {})
      BY <2>8 DEF Cleanup
    <3>2. RequestTypeOK'
      BY <3>1, AnswerType DEF Codes
    <3>3. Control'
      BY <3>1 DEF Answer, Control, InFlight, RequestTypeOK
    <3>4. call[r].id \in HarvestIds
      BY <2>8, CallFields DEF Cleanup, Control, InFlight
    <3> QED
      BY <2>8, <3>2, <3>3, <3>4
      DEF Cleanup, Cancel, TableTypeOK, HistoryTypeOK, ExternalTypeOK
  <2>9. ASSUME NEW r \in Requests, ListIDs(r) PROVE TypeOK' /\ Control'
    <3>1. IdsByHive(rows, call[r].hive) \in SUBSET HarvestIds
      BY DEF TableTypeOK, IdsByHive
    <3>2. RequestTypeOK'
      BY <2>9, <3>1 DEF ListIDs, GoTo, RequestTypeOK, PCs, ghosts
    <3>3. Control'
      BY <2>9 DEF ListIDs, GoTo, Control, InFlight, RequestTypeOK, Malformed
    <3> QED
      BY <2>9, <3>2, <3>3
      DEF ListIDs, ghosts, external, TableTypeOK, HistoryTypeOK, ExternalTypeOK
  <2>10. ASSUME NEW r \in Requests, CancelNext(r) PROVE TypeOK' /\ Control'
    <3>0. PICK id \in HarvestIds :
            /\ Cancel(id) \/ UNCHANGED reminder
            /\ \/ cancelled' = [cancelled EXCEPT ![r] = @ \cup {id}]
               \/ UNCHANGED cancelled
      BY <2>10 DEF CancelNext, RequestTypeOK
    <3>1. HistoryTypeOK' /\ ExternalTypeOK'
      <4>1. reminder' \in [HarvestIds -> {"none", "asked", "set"}]
        BY <3>0 DEF Cancel, ExternalTypeOK
      <4>2. cancelled' \in [Requests -> SUBSET HarvestIds]
        BY <3>0 DEF HistoryTypeOK
      <4> QED
        BY <2>10, <4>1, <4>2 DEF CancelNext, HistoryTypeOK, ExternalTypeOK
    <3>2. CASE Answer(r, "internal_error", Null, {})
      <4>1. RequestTypeOK'
        BY <3>2, AnswerType DEF Codes
      <4>2. Control'
        BY <3>2 DEF Answer, Control, InFlight, RequestTypeOK
      <4> QED
        BY <2>10, <3>1, <4>1, <4>2 DEF CancelNext, TableTypeOK
    <3>3. CASE UNCHANGED <<pc, call, loaded, reply, seen>>
               /\ \E x \in todo[r] : todo' = [todo EXCEPT ![r] = @ \ {x}]
      BY <2>10, <3>1, <3>3
      DEF CancelNext, TableTypeOK, RequestTypeOK, Control, InFlight, Malformed
    <3> QED
      BY <2>10, <3>2, <3>3 DEF CancelNext
  <2>11. ASSUME NEW r \in Requests, Purge(r) PROVE TypeOK' /\ Control'
    <3>1. TableTypeOK'
      BY <2>11 DEF Purge, DeleteByHive, DeleteRows, TableTypeOK
    <3>2. IdsByHive(rows, call[r].hive) \in SUBSET HarvestIds
      BY DEF TableTypeOK, IdsByHive
    <3>3. RequestTypeOK'
      BY <2>11, <3>2, AnswerType DEF Purge, AnswerOrError, Codes
    <3>4. Control'
      BY <2>11 DEF Purge, AnswerOrError, Answer, Control, InFlight, RequestTypeOK
    <3> QED
      BY <2>11, <3>1, <3>3, <3>4 DEF Purge, external, HistoryTypeOK, ExternalTypeOK
  <2>12. ASSUME NEW r \in Requests, Erase(r) PROVE TypeOK' /\ Control'
    <3>1. TableTypeOK'
      BY <2>12 DEF Erase, DeleteAllByUser, DeleteRows, TableTypeOK
    <3>2. RequestTypeOK'
      BY <2>12, AnswerType DEF Erase, Codes
    <3>3. Control'
      BY <2>12 DEF Erase, Answer, Control, InFlight, RequestTypeOK
    <3> QED
      BY <2>12, <3>1, <3>2, <3>3 DEF Erase, external, HistoryTypeOK, ExternalTypeOK
  <2>13. ASSUME NEW r \in Requests, CallFails(r) PROVE TypeOK' /\ Control'
    <3>1. RequestTypeOK'
      BY <2>13, AnswerType DEF CallFails, Codes
    <3>2. Control'
      BY <2>13 DEF CallFails, Answer, Control, InFlight, RequestTypeOK
    <3> QED
      BY <2>13, <3>1, <3>2
      DEF CallFails, external, TableTypeOK, HistoryTypeOK, ExternalTypeOK
  <2>14. CASE Crash
    <3>1. RequestTypeOK'
      BY <2>14 DEF Crash, RequestTypeOK, Says, Codes, PCs
    <3>2. Control'
      BY <2>14 DEF Crash, Control, InFlight
    <3> QED
      BY <2>14, <3>1, <3>2
      DEF Crash, external, TableTypeOK, HistoryTypeOK, ExternalTypeOK
  <2>15. CASE External
    <3>1. UNCHANGED <<rows, home, pc, call, loaded, todo, reply, cancelled, present, removed>>
      BY <2>15 DEF External, HiveMoves, ExistsCheck, ReminderIsStored, CloseAccount,
         local, ghosts
    <3>2. ASSUME NEW h \in HiveIds, NEW s \in HiveStates, HiveMoves(h, s)
          PROVE  ExternalTypeOK' /\ seen' \in [Requests -> SUBSET {"writable", "readonly", "gone"}]
      BY <3>2, ServiceConstants DEF HiveMoves, ExternalTypeOK, RequestTypeOK
    <3>3. ASSUME NEW id \in Reminded, ExistsCheck(id) \/ ReminderIsStored(id)
          PROVE  ExternalTypeOK' /\ UNCHANGED seen
      BY <3>3 DEF ExistsCheck, ReminderIsStored, ExternalTypeOK, ghosts
    <3>4. ASSUME NEW u \in Users, CloseAccount(u)
          PROVE  ExternalTypeOK' /\ UNCHANGED seen
      BY <3>4 DEF CloseAccount, ExternalTypeOK, ghosts
    <3>5. ExternalTypeOK' /\ seen' \in [Requests -> SUBSET {"writable", "readonly", "gone"}]
      BY <2>15, <3>2, <3>3, <3>4 DEF External, RequestTypeOK
    <3> QED
      BY <3>1, <3>5
      DEF TableTypeOK, RequestTypeOK, HistoryTypeOK, Control, InFlight, Malformed
  <2>16. CASE UNCHANGED vars
    BY <2>16 DEF vars, local, ghosts, external, TableTypeOK, RequestTypeOK,
       HistoryTypeOK, ExternalTypeOK, Control, InFlight, Malformed
  <2> QED
    BY <2>1, <2>2, <2>3, <2>4, <2>5, <2>6, <2>7, <2>8, <2>9, <2>10, <2>11,
       <2>12, <2>13, <2>14, <2>15, <2>16 DEF Next, Work
<1> QED
  BY <1>1, <1>2, PTL DEF Spec

\* TypeOK on its own, as the runs check it.
THEOREM TypeCorrect == Spec => []TypeOK
  BY TypedControl, PTL
\* Every call but the request's last one leads to another, the last one to
\* an answer; everything else about requests is the environment's.  This is
\* how the proofs below take a step apart.
LEMMA StepKinds ==
  ASSUME [Next]_vars
  PROVE  \/ \E r \in Requests, c \in Calls : Begin(r, c)
         \/ \E r \in Requests : Verify(r)
         \/ \E r \in Requests : Insert(r)
         \/ \E r \in Requests : Load(r)
         \/ \E r \in Requests : Update(r)
         \/ \E r \in Requests : Delete(r)
         \/ \E r \in Requests : Cleanup(r)
         \/ \E r \in Requests : ListIDs(r)
         \/ \E r \in Requests : CancelNext(r)
         \/ \E r \in Requests : Purge(r)
         \/ \E r \in Requests : Erase(r)
         \/ \E r \in Requests : Get(r) \/ CallFails(r)
         \/ Crash
         \/ \E h \in HiveIds, s \in HiveStates : HiveMoves(h, s)
         \/ \E id \in Reminded : ExistsCheck(id) \/ ReminderIsStored(id)
         \/ \E u \in Users : CloseAccount(u)
         \/ UNCHANGED vars
  BY DEF Next, Work, External

\* A request that ends takes no permission from another.
LEMMA AnswerAdmitted ==
  ASSUME TypeOK, Admitted, NEW r \in Requests, NEW code, NEW record, NEW ids,
         Answer(r, code, record, ids), UNCHANGED hive
  PROVE  Admitted'
  BY DEF TypeOK, RequestTypeOK, Admitted, Answer

\* A request that goes on keeps what Verify gave it.
LEMMA GoOnAdmitted ==
  ASSUME TypeOK, Admitted, NEW r \in Requests, NEW step,
         pc[r] \notin {"idle", "verify", "erase"},
         step \in {"insert", "load", "update"} => pc[r] \in {"insert", "load", "update"},
         step # "verify",
         GoTo(r, step), UNCHANGED <<call, seen, hive>>
  PROVE  Admitted'
  BY DEF TypeOK, RequestTypeOK, Admitted, GoTo

\* Nothing past Verify runs for a caller whose hive it is not, nor a write
\* for one whose hive was at no instant of the request writable.
LEMMA AdmittedAlways == Spec => []Admitted
<1>1. Init => Admitted
  BY DEF Init, Admitted
<1>2. TypeOK /\ Control /\ Admitted /\ [Next]_vars => Admitted'
  <2> SUFFICES ASSUME TypeOK, Control, Admitted, [Next]_vars PROVE Admitted'
    OBVIOUS
  <2>1. ASSUME NEW r \in Requests, NEW c \in Calls, Begin(r, c) PROVE Admitted'
    <3>1. CASE Malformed(c)
      BY <2>1, <3>1 DEF Begin, external, Admitted, TypeOK, RequestTypeOK
    <3>2. CASE ~Malformed(c)
      BY <2>1, <3>2 DEF Begin, GoTo, external, Admitted, TypeOK, RequestTypeOK
    <3> QED
      BY <3>1, <3>2
  <2>2. ASSUME NEW r \in Requests, Verify(r) PROVE Admitted'
    <3> DEFINE c == call[r]
    <3>1. CASE \E code : Answer(r, code, Null, {})
      BY <2>2, <3>1, AnswerAdmitted DEF Verify, external
    <3>2. CASE /\ HiveSays(c.hive, c.user) \in {"writable", "readonly"}
               /\ NeedsWritableHive(c.op) => HiveSays(c.hive, c.user) = "writable"
               /\ GoTo(r, AfterVerify[c.op])
               /\ UNCHANGED <<call, loaded, todo, reply, seen>>
      <4>1. c.op \in {"create", "get", "update", "delete", "cascade"}
        BY <2>2, CallFields DEF Verify, Control, OpNames, InFlight
      <4>2. /\ Owner[c.hive] = c.user
            /\ hive[c.hive] \in seen[r] \ {"gone"}
            /\ c.op \in {"create", "update"} => hive[c.hive] = "writable"
        BY <2>2, <3>2 DEF Verify, HiveSays, NeedsWritableHive, Admitted
      <4>3. /\ pc' = [pc EXCEPT ![r] = AfterVerify[c.op]]
            /\ UNCHANGED <<call, seen, hive>>
            /\ AfterVerify[c.op] \in {"insert", "load"} => c.op \in {"create", "update"}
            /\ AfterVerify[c.op] \notin {"idle", "verify", "erase", "update"}
        BY <2>2, <3>2, <4>1 DEF Verify, GoTo, external, AfterVerify
      <4> QED
        BY <4>2, <4>3 DEF Admitted, TypeOK, RequestTypeOK
    <3> QED
      BY <2>2, <3>1, <3>2 DEF Verify
  <2>3. ASSUME NEW r \in Requests,
               Insert(r) \/ Update(r) \/ Cleanup(r) \/ Purge(r) \/ Erase(r)
                 \/ Get(r) \/ CallFails(r)
        PROVE  Admitted'
    <3>1. \E code, record, ids : Answer(r, code, record, ids)
      BY <2>3 DEF Insert, Update, Cleanup, Purge, Erase, Get, CallFails, AnswerOrError
    <3>2. UNCHANGED hive
      BY <2>3 DEF Insert, Update, Cleanup, Purge, Erase, Get, CallFails, external
    <3> QED
      BY <3>1, <3>2, AnswerAdmitted
  <2>4. ASSUME NEW r \in Requests, Load(r) \/ Delete(r) \/ ListIDs(r) \/ CancelNext(r)
        PROVE  Admitted'
    <3>1. UNCHANGED hive
      BY <2>4 DEF Load, Delete, ListIDs, CancelNext, external
    <3>2. CASE \E code, record, ids : Answer(r, code, record, ids)
      BY <3>1, <3>2, AnswerAdmitted
    <3>3. CASE \E step \in {"update", "cleanup", "cancel"} :
                 /\ GoTo(r, step) /\ UNCHANGED <<call, seen>>
                 /\ step = "update" => pc[r] = "load"
      BY <2>4, <3>1, <3>3, GoOnAdmitted DEF Load, Delete, ListIDs, CancelNext
    <3>4. CASE UNCHANGED <<pc, call, seen>>
      BY <3>1, <3>4 DEF Admitted
    <3> QED
      BY <2>4, <3>2, <3>3, <3>4 DEF Load, Delete, ListIDs, CancelNext, ghosts
  <2>5. CASE Crash
    BY <2>5 DEF Crash, Admitted
  <2>6. ASSUME NEW h \in HiveIds, NEW s \in HiveStates, HiveMoves(h, s) PROVE Admitted'
    BY <2>6 DEF HiveMoves, local, Admitted, InFlight, TypeOK, RequestTypeOK, ExternalTypeOK
  <2>7. CASE UNCHANGED <<pc, call, seen, hive>>
    BY <2>7 DEF Admitted
  <2> QED
    BY StepKinds, <2>1, <2>2, <2>3, <2>4, <2>5, <2>6, <2>7
    DEF ExistsCheck, ReminderIsStored, CloseAccount, vars, local, ghosts, external
<1> QED
  BY <1>1, <1>2, TypedControl, PTL DEF Spec

\* The five statements that write the table, and what each does to one row.
LEMMA RowChange ==
  ASSUME TypeOK, Control, [Next]_vars, NEW id \in HarvestIds, rows'[id] # rows[id]
  PROVE  \E r \in Requests : LET c == call[r] IN
           /\ pc'[r] # pc[r]
           /\ \/ /\ Insert(r)
                 /\ home[id] = Null /\ home' = [home EXCEPT ![id] = c.hive]
                 /\ rows'[id] = Row(c.hive, c.user, c.body) /\ rows'[id] # Null
              \/ /\ Update(r) /\ Found(rows, c.hive, id)
                 /\ rows'[id] = Row(c.hive, rows[id].user, c.body) /\ rows'[id] # Null
              \/ Delete(r) /\ Found(rows, c.hive, id) /\ rows'[id] = Null
              \/ Purge(r) /\ Found(rows, c.hive, id) /\ rows'[id] = Null
              \/ /\ Erase(r)
                 /\ rows[id] # Null /\ rows[id].user = c.user /\ rows'[id] = Null
  <1>1. ASSUME NEW r \in Requests, NEW code, NEW record, NEW ids, InFlight(r),
               Answer(r, code, record, ids)
        PROVE  pc'[r] # pc[r]
    BY <1>1 DEF Answer, InFlight, TypeOK, RequestTypeOK
  <1>2. ASSUME NEW r \in Requests, Insert(r)
        PROVE  /\ pc'[r] # pc[r]
               /\ home[id] = Null /\ home' = [home EXCEPT ![id] = call[r].hive]
               /\ rows'[id] = Row(call[r].hive, call[r].user, call[r].body)
               /\ rows'[id] # Null
    <2>1. pc'[r] # pc[r]
      BY <1>1, <1>2 DEF Insert, AnswerOrError, InFlight
    <2>2. Row(call[r].hive, call[r].user, call[r].body) \in Rows
      BY <1>2, CallFields DEF Insert, Control, InFlight, Row, Rows
    <2>3. PICK new \in HarvestIds :
            /\ home[new] = Null
            /\ rows' = CreateRow(rows, new, Row(call[r].hive, call[r].user, call[r].body))
            /\ home' = [home EXCEPT ![new] = Row(call[r].hive, call[r].user, call[r].body).hive]
      BY <1>2 DEF Insert, Fresh
    <2>4. new = id /\ rows'[id] = Row(call[r].hive, call[r].user, call[r].body)
      BY <2>3 DEF CreateRow, TypeOK, TableTypeOK
    <2>5. home' = [home EXCEPT ![id] = call[r].hive]
      BY <2>3, <2>4 DEF Row
    <2> QED
      BY <2>1, <2>2, <2>3, <2>4, <2>5, RequestConstants
  <1>3. ASSUME NEW r \in Requests, Update(r)
        PROVE  /\ pc'[r] # pc[r]
               /\ Found(rows, call[r].hive, id)
               /\ rows'[id] = Row(call[r].hive, rows[id].user, call[r].body)
               /\ rows'[id] # Null
    <2>1. pc'[r] # pc[r]
      BY <1>1, <1>3 DEF Update, AnswerOrError, InFlight
    <2>2. loaded[r].hive = call[r].hive
      BY <1>3 DEF Update, Control
    <2>3. /\ Found(rows, call[r].hive, id)
          /\ rows'[id] = Row(call[r].hive, rows[id].user, call[r].body)
      BY <1>3, <2>2 DEF Update, UpdateRow, Found, Row, TypeOK, TableTypeOK
    <2>4. rows'[id] \in Rows
      BY <1>3, <2>3, CallFields
      DEF Update, Control, InFlight, Found, Row, Rows, TypeOK, TableTypeOK
    <2> QED
      BY <2>1, <2>3, <2>4, RequestConstants
  <1>4. ASSUME NEW r \in Requests, Delete(r)
        PROVE  /\ pc'[r] # pc[r]
               /\ Found(rows, call[r].hive, id) /\ rows'[id] = Null
    <2>1. pc'[r] # pc[r]
      BY <1>1, <1>4 DEF Delete, GoTo, InFlight, TypeOK, RequestTypeOK
    <2> QED
      BY <1>4, <2>1 DEF Delete, DeleteRow, DeleteRows, TypeOK, TableTypeOK
  <1>5. ASSUME NEW r \in Requests, Purge(r)
        PROVE  /\ pc'[r] # pc[r]
               /\ Found(rows, call[r].hive, id) /\ rows'[id] = Null
    <2>1. pc'[r] # pc[r]
      BY <1>1, <1>5 DEF Purge, AnswerOrError, InFlight
    <2> QED
      BY <1>5, <2>1 DEF Purge, DeleteByHive, IdsByHive, DeleteRows, TypeOK, TableTypeOK
  <1>6. ASSUME NEW r \in Requests, Erase(r)
        PROVE  /\ pc'[r] # pc[r]
               /\ rows[id] # Null /\ rows[id].user = call[r].user /\ rows'[id] = Null
    <2>1. pc'[r] # pc[r]
      BY <1>1, <1>6 DEF Erase, InFlight
    <2> QED
      BY <1>6, <2>1 DEF Erase, DeleteAllByUser, IdsByUser, DeleteRows, TypeOK, TableTypeOK
  <1>7. \E r \in Requests :
          Insert(r) \/ Update(r) \/ Delete(r) \/ Purge(r) \/ Erase(r)
    BY StepKinds DEF Begin, Verify, Load, Cleanup, ListIDs, CancelNext, Get, CallFails,
       Crash, HiveMoves, ExistsCheck, ReminderIsStored, CloseAccount, vars
  <1> QED
    BY <1>2, <1>3, <1>4, <1>5, <1>6, <1>7

\* The user_id of a row is NULL or the owner of its hive.
THEOREM OwnerStampedAlways == Spec => []OwnerStamped
<1>1. Init => OwnerStamped
  BY DEF Init, StartingRows, Row, OwnerStamped
<1>2. TypeOK /\ Control /\ Admitted /\ OwnerStamped /\ [Next]_vars => OwnerStamped'
  <2> SUFFICES ASSUME TypeOK, Control, Admitted, OwnerStamped, [Next]_vars,
                      NEW id \in HarvestIds, rows'[id] # Null
               PROVE  rows'[id].user \in {Null, Owner[rows'[id].hive]}
    BY DEF OwnerStamped
  <2>1. CASE rows'[id] = rows[id]
    BY <2>1 DEF OwnerStamped
  <2>2. CASE rows'[id] # rows[id]
    <3>1. PICK r \in Requests :
            \/ Insert(r) /\ rows'[id] = Row(call[r].hive, call[r].user, call[r].body)
            \/ /\ Found(rows, call[r].hive, id)
               /\ rows'[id] = Row(call[r].hive, rows[id].user, call[r].body)
      BY <2>2, RowChange
    <3>2. CASE Insert(r) /\ rows'[id] = Row(call[r].hive, call[r].user, call[r].body)
      BY <3>2 DEF Insert, Admitted, Row
    <3>3. CASE /\ Found(rows, call[r].hive, id)
               /\ rows'[id] = Row(call[r].hive, rows[id].user, call[r].body)
      BY <3>3 DEF Found, Row, OwnerStamped
    <3> QED
      BY <3>1, <3>2, <3>3
  <2> QED
    BY <2>1, <2>2
<1> QED
  BY <1>1, <1>2, TypedControl, AdmittedAlways, PTL DEF Spec

\* Every row holds a body that passed validation.
THEOREM RowsAlwaysWellFormed == Spec => []RowsWellFormed
<1>1. Init => RowsWellFormed
  BY DEF Init, StartingRows, Row, RowsWellFormed
<1>2. TypeOK /\ Control /\ RowsWellFormed /\ [Next]_vars => RowsWellFormed'
  <2> SUFFICES ASSUME TypeOK, Control, RowsWellFormed, [Next]_vars,
                      NEW id \in HarvestIds, rows'[id] # Null, rows'[id] # rows[id]
               PROVE  rows'[id].body \in ValidBodies
    BY DEF RowsWellFormed
  <2>1. PICK r \in Requests :
          /\ Insert(r) \/ Update(r)
          /\ \/ rows'[id] = Row(call[r].hive, call[r].user, call[r].body)
             \/ rows'[id] = Row(call[r].hive, rows[id].user, call[r].body)
    BY RowChange
  <2> QED
    BY <2>1 DEF Insert, Update, Control, InFlight, Malformed, Row
<1> QED
  BY <1>1, <1>2, TypedControl, PTL DEF Spec

\* An id that had a row and has none never has one again.
THEOREM NeverResurrected == Spec => NoResurrection
<1>1. TypeOK /\ Control /\ [Next]_vars =>
        [\A id \in HarvestIds :
           home[id] # Null /\ rows[id] = Null => rows'[id] = Null]_vars
  <2> SUFFICES ASSUME TypeOK, Control, [Next]_vars, NEW id \in HarvestIds,
                      home[id] # Null, rows[id] = Null, rows'[id] # rows[id]
               PROVE  rows'[id] = Null
    OBVIOUS
  <2> QED
    BY RowChange DEF Found
<1> QED
  BY <1>1, TypedControl, PTL DEF Spec, NoResurrection

\* Every write of the table is by a request its caller was entitled to make
\* at some instant since it arrived.
THEOREM EntitlementIsLive == Spec => LiveEntitlement
<1> DEFINE Entitled(id) ==
      \E r \in Requests : LET c == call[r] IN
         /\ pc[r] # "idle" /\ pc'[r] # pc[r]
         /\ \/ /\ c.op \in {"create", "update"}
               /\ rows'[id] # Null /\ rows'[id].hive = c.hive
               /\ Owner[c.hive] = c.user /\ "writable" \in seen[r]
            \/ /\ c.op \in {"delete", "cascade"}
               /\ rows'[id] = Null /\ rows[id].hive = c.hive
               /\ Owner[c.hive] = c.user /\ seen[r] \ {"gone"} # {}
            \/ /\ c.op = "erase"
               /\ rows'[id] = Null /\ rows[id].user = c.user
<1>1. TypeOK /\ Control /\ Admitted /\ [Next]_vars =>
        [\A id \in HarvestIds : rows'[id] # rows[id] => Entitled(id)]_vars
  <2> SUFFICES ASSUME TypeOK, Control, Admitted, [Next]_vars, NEW id \in HarvestIds,
                      rows'[id] # rows[id]
               PROVE  Entitled(id)
    OBVIOUS
  <2>1. PICK r \in Requests : LET c == call[r] IN
          /\ pc'[r] # pc[r]
          /\ \/ Insert(r) /\ rows'[id] = Row(c.hive, c.user, c.body) /\ rows'[id] # Null
             \/ /\ Update(r)
                /\ rows'[id] = Row(c.hive, rows[id].user, c.body) /\ rows'[id] # Null
             \/ Delete(r) /\ Found(rows, c.hive, id) /\ rows'[id] = Null
             \/ Purge(r) /\ Found(rows, c.hive, id) /\ rows'[id] = Null
             \/ Erase(r) /\ rows[id].user = c.user /\ rows'[id] = Null
    BY RowChange
  <2>2. CASE /\ Insert(r) \/ Update(r)
             /\ rows'[id] # Null /\ rows'[id].hive = call[r].hive
    BY <2>1, <2>2 DEF Insert, Update, Control, Admitted
  <2>3. CASE (Delete(r) \/ Purge(r)) /\ Found(rows, call[r].hive, id) /\ rows'[id] = Null
    BY <2>1, <2>3 DEF Delete, Purge, Found, Control, Admitted
  <2>4. CASE Erase(r) /\ rows[id].user = call[r].user /\ rows'[id] = Null
    BY <2>1, <2>4 DEF Erase, Control
  <2> QED
    BY <2>1, <2>2, <2>3, <2>4 DEF Row
<1> QED
  BY <1>1, TypedControl, AdmittedAlways, PTL DEF Spec, LiveEntitlement

\* An answer that shows nothing, or a record of the caller's hive, is fine.
LEMMA AnswerDiscloses ==
  ASSUME TypeOK, DisclosureOnlyToOwner, NEW r \in Requests,
         NEW code, NEW record, NEW ids, Answer(r, code, record, ids),
         record # Null => Owner[record.hive] = call[r].user
  PROVE  DisclosureOnlyToOwner'
  BY DEF TypeOK, RequestTypeOK, DisclosureOnlyToOwner, Answer, Says

\* A record is shown to the owner of its hive only.
THEOREM DisclosedToOwnersOnly == Spec => []DisclosureOnlyToOwner
<1>1. Init => DisclosureOnlyToOwner
  BY DEF Init, NoReply, Says, DisclosureOnlyToOwner
<1>2. TypeOK /\ Control /\ Admitted /\ DisclosureOnlyToOwner /\ [Next]_vars
        => DisclosureOnlyToOwner'
  <2> SUFFICES ASSUME TypeOK, Control, Admitted, DisclosureOnlyToOwner, [Next]_vars
               PROVE  DisclosureOnlyToOwner'
    OBVIOUS
  <2>1. ASSUME NEW r \in Requests, NEW c \in Calls, Begin(r, c)
        PROVE  DisclosureOnlyToOwner'
    BY <2>1 DEF Begin, NoReply, Says, DisclosureOnlyToOwner, TypeOK, RequestTypeOK
  <2>2. ASSUME NEW r \in Requests, NEW code, NEW ids, Answer(r, code, Null, ids)
        PROVE  DisclosureOnlyToOwner'
    BY <2>2, AnswerDiscloses
  <2>3. CASE UNCHANGED <<reply, call>>
    BY <2>3 DEF DisclosureOnlyToOwner
  <2>4. ASSUME NEW r \in Requests, Insert(r) PROVE DisclosureOnlyToOwner'
    <3> DEFINE row == Row(call[r].hive, call[r].user, call[r].body)
    <3>1. PICK id \in HarvestIds : AnswerOrError(r, "created", Record(id, row), {})
      BY <2>4 DEF Insert, Fresh
    <3>2. Owner[Record(id, row).hive] = call[r].user
      BY <2>4 DEF Insert, Admitted, Record, Row
    <3> QED
      BY <3>1, <3>2, <2>2, AnswerDiscloses DEF AnswerOrError
  <2>5. ASSUME NEW r \in Requests, Update(r) PROVE DisclosureOnlyToOwner'
    <3> DEFINE h == Row(loaded[r].hive, loaded[r].user, call[r].body)
    <3>1. Owner[Record(call[r].id, h).hive] = call[r].user
      BY <2>5 DEF Update, Control, Admitted, Record, Row
    <3>2. \/ Answer(r, "ok", Record(call[r].id, h), {})
          \/ \E code : Answer(r, code, Null, {})
      BY <2>5 DEF Update, AnswerOrError
    <3> QED
      BY <3>1, <3>2, <2>2, AnswerDiscloses
  <2>6. ASSUME NEW r \in Requests, Get(r) PROVE DisclosureOnlyToOwner'
    <3>1. CASE Found(rows, call[r].hive, call[r].id)
      <4>1. Owner[Record(call[r].id, rows[call[r].id]).hive] = call[r].user
        BY <2>6, <3>1 DEF Get, Admitted, Record, Found
      <4>2. Answer(r, "ok", Record(call[r].id, rows[call[r].id]), {})
        BY <2>6, <3>1 DEF Get
      <4> QED
        BY <4>1, <4>2, AnswerDiscloses
    <3>2. CASE ~Found(rows, call[r].hive, call[r].id)
      BY <2>6, <3>2, <2>2 DEF Get
    <3> QED
      BY <3>1, <3>2
  <2>7. CASE Crash
    BY <2>7 DEF Crash, Says, DisclosureOnlyToOwner, TypeOK, RequestTypeOK
  <2>8. ASSUME NEW r \in Requests,
               Verify(r) \/ Load(r) \/ Delete(r) \/ Cleanup(r) \/ ListIDs(r)
                 \/ CancelNext(r) \/ Purge(r) \/ Erase(r) \/ CallFails(r)
        PROVE  DisclosureOnlyToOwner'
    <3>1. \/ \E code, ids : Answer(r, code, Null, ids)
          \/ UNCHANGED <<reply, call>>
      BY <2>8 DEF Verify, Load, Delete, Cleanup, ListIDs, CancelNext, Purge, Erase,
         CallFails, AnswerOrError
    <3> QED
      BY <3>1, <2>2, <2>3
  <2> QED
    BY StepKinds, <2>1, <2>3, <2>4, <2>5, <2>6, <2>7, <2>8
    DEF HiveMoves, ExistsCheck, ReminderIsStored, CloseAccount, vars, local
<1> QED
  BY <1>1, <1>2, TypedControl, AdmittedAlways, PTL DEF Spec

\* The hive an id was first under is recorded once.
LEMMA HomeStep ==
  ASSUME TypeOK, [Next]_vars, NEW id \in HarvestIds, home[id] # Null
  PROVE  home'[id] = home[id]
  <1>1. ASSUME NEW r \in Requests, Insert(r) PROVE home'[id] = home[id]
    BY <1>1 DEF Insert, Fresh, TypeOK, TableTypeOK
  <1> QED
    BY StepKinds, <1>1 DEF Begin, Verify, Load, Update, Delete, Cleanup, ListIDs,
       CancelNext, Purge, Erase, Get, CallFails, Crash, HiveMoves, ExistsCheck,
       ReminderIsStored, CloseAccount, vars

\* A row lies under the hive its id was first under.
LEMMA HomesAlwaysKept == Spec => []HomesKept
<1>1. Init => HomesKept
  BY DEF Init, HivesOf, HomesKept
<1>2. TypeOK /\ Control /\ HomesKept /\ [Next]_vars => HomesKept'
  <2> SUFFICES ASSUME TypeOK, Control, HomesKept, [Next]_vars,
                      NEW id \in HarvestIds, rows'[id] # Null
               PROVE  home'[id] = rows'[id].hive
    BY DEF HomesKept
  <2>1. CASE rows[id] # Null /\ rows'[id] = rows[id]
    <3>1. home[id] = rows[id].hive /\ home[id] # Null
      BY <2>1, RequestConstants DEF HomesKept, TypeOK, TableTypeOK, Rows
    <3> QED
      BY <2>1, <3>1, HomeStep
  <2>2. CASE rows'[id] # rows[id]
    <3>1. PICK r \in Requests :
            \/ /\ home' = [home EXCEPT ![id] = call[r].hive]
               /\ rows'[id] = Row(call[r].hive, call[r].user, call[r].body)
            \/ /\ Found(rows, call[r].hive, id)
               /\ rows'[id] = Row(call[r].hive, rows[id].user, call[r].body)
      BY <2>2, RowChange
    <3>2. CASE /\ home' = [home EXCEPT ![id] = call[r].hive]
               /\ rows'[id] = Row(call[r].hive, call[r].user, call[r].body)
      BY <3>2 DEF Row, TypeOK, TableTypeOK
    <3>3. CASE /\ Found(rows, call[r].hive, id)
               /\ rows'[id] = Row(call[r].hive, rows[id].user, call[r].body)
      <4>1. home[id] = call[r].hive /\ home[id] # Null
        BY <3>3, RequestConstants DEF Found, HomesKept, TypeOK, TableTypeOK, Rows
      <4>2. home'[id] = home[id]
        BY <4>1, HomeStep
      <4> QED
        BY <3>3, <4>1, <4>2 DEF Row
    <3> QED
      BY <3>1, <3>2, <3>3
  <2> QED
    BY <2>1, <2>2
<1> QED
  BY <1>1, <1>2, TypedControl, PTL DEF Spec

\* What a request has removed is forgotten only when its next one arrives.
LEMMA RemovedStep ==
  ASSUME TypeOK, [Next]_vars, NEW q \in Requests
  PROVE  removed[q] \subseteq removed'[q] \/ \E c \in Calls : Begin(q, c)
  <1>1. ASSUME NEW r \in Requests, Delete(r) PROVE removed[q] \subseteq removed'[q]
    BY <1>1 DEF Delete, Removes, TypeOK, HistoryTypeOK
  <1>2. ASSUME NEW r \in Requests, NEW c \in Calls, Begin(r, c), q # r
        PROVE  removed[q] \subseteq removed'[q]
    BY <1>2 DEF Begin, TypeOK, HistoryTypeOK
  <1> QED
    BY StepKinds, <1>1, <1>2
    DEF Verify, Insert, Load, Update, Cleanup, ListIDs, CancelNext, Purge, Erase, Get,
        CallFails, Crash, HiveMoves, ExistsCheck, ReminderIsStored, CloseAccount,
        vars, ghosts

\* A request that ends has nothing left to cancel.
LEMMA AnswerTodo ==
  ASSUME TypeOK, Control, HomesKept, OwnTodo, [Next]_vars, NEW r \in Requests,
         NEW code, NEW record, NEW ids, Answer(r, code, record, ids)
  PROVE  OwnTodo'
  <1> SUFFICES ASSUME NEW q \in Requests
               PROVE  /\ \A id \in todo'[q] : home'[id] = call'[q].hive
                      /\ todo'[q] # {} => pc'[q] = "cancel"
                      /\ pc'[q] = "cleanup" => /\ home'[call'[q].id] = call'[q].hive
                                               /\ call'[q].id \in removed'[q]
    BY DEF OwnTodo
  <1>1. CASE q = r
    BY <1>1 DEF Answer, TypeOK, RequestTypeOK
  <1>2. CASE q # r
    <2>1. todo'[q] = todo[q] /\ pc'[q] = pc[q] /\ call'[q] = call[q]
      BY <1>2 DEF Answer, TypeOK, RequestTypeOK
    <2>2. pc[q] \in {"cancel", "cleanup"} => call[q].hive # Null
      BY CallFields, RequestConstants DEF Control, InFlight
    <2>3. pc[q] = "cleanup" => call[q].id \in HarvestIds
      BY CallFields DEF Control, InFlight
    <2>4. ASSUME NEW id \in todo[q] PROVE home'[id] = call[q].hive
      <3>1. pc[q] = "cancel" /\ home[id] = call[q].hive /\ id \in HarvestIds
        BY DEF OwnTodo, TypeOK, RequestTypeOK
      <3> QED
        BY <2>2, <3>1, HomeStep
    <2>5. pc[q] = "cleanup" => home'[call[q].id] = call[q].hive
      BY <2>2, <2>3, HomeStep DEF OwnTodo
    <2>6. pc[q] = "cleanup" => call[q].id \in removed'[q]
      BY RemovedStep DEF OwnTodo, Begin
    <2> QED
      BY <2>1, <2>4, <2>5, <2>6 DEF OwnTodo
  <1> QED
    BY <1>1, <1>2

\* Whatever a request is about to cancel was a harvest of its hive.
LEMMA TodoAlwaysOwn == Spec => []OwnTodo
<1>1. Init => OwnTodo
  BY DEF Init, OwnTodo
<1>2. TypeOK /\ Control /\ HomesKept /\ OwnTodo /\ [Next]_vars => OwnTodo'
  <2> SUFFICES ASSUME TypeOK, Control, HomesKept, OwnTodo, [Next]_vars PROVE OwnTodo'
    OBVIOUS
  <2>1. ASSUME NEW r \in Requests, NEW c \in Calls, Begin(r, c) PROVE OwnTodo'
    <3>1. todo[r] = {} /\ pc'[r] # "cleanup" /\ UNCHANGED <<todo, home>>
      BY <2>1 DEF Begin, GoTo, OwnTodo, TypeOK, RequestTypeOK
    <3>2. \A q \in Requests \ {r} :
            pc'[q] = pc[q] /\ call'[q] = call[q] /\ removed'[q] = removed[q]
      BY <2>1 DEF Begin, GoTo, TypeOK, RequestTypeOK, HistoryTypeOK
    <3> QED
      BY <3>1, <3>2 DEF OwnTodo
  <2>2. ASSUME NEW r \in Requests, NEW code, NEW record, NEW ids,
               Answer(r, code, record, ids)
        PROVE  OwnTodo'
    BY <2>2, AnswerTodo
  <2>3. ASSUME NEW r \in Requests, Verify(r) \/ Load(r) PROVE OwnTodo'
    <3>1. CASE \E code, record, ids : Answer(r, code, record, ids)
      BY <3>1, <2>2
    <3>2. CASE \E step : GoTo(r, step) /\ UNCHANGED <<call, todo>> /\ step # "cleanup"
      <4>1. todo[r] = {} /\ UNCHANGED <<home, removed>>
        BY <2>3 DEF Verify, Load, OwnTodo
      <4> QED
        BY <3>2, <4>1 DEF GoTo, OwnTodo, TypeOK, RequestTypeOK
    <3>3. AfterVerify[call[r].op] # "cleanup" \/ ~Verify(r)
      BY CallFields DEF Verify, Control, OpNames, InFlight, AfterVerify
    <3> QED
      BY <2>3, <3>1, <3>2, <3>3 DEF Verify, Load
  <2>4. ASSUME NEW r \in Requests, Delete(r) PROVE OwnTodo'
    <3>1. CASE \E code, record, ids : Answer(r, code, record, ids)
      BY <3>1, <2>2
    <3>2. CASE /\ Found(rows, call[r].hive, call[r].id) /\ GoTo(r, "cleanup")
               /\ UNCHANGED <<call, todo, home>>
      <4>1. todo[r] = {} /\ call[r].id \in HarvestIds
        BY <2>4, CallFields DEF Delete, OwnTodo, Control, InFlight
      <4>2. home[call[r].id] = call[r].hive
        BY <3>2, <4>1 DEF Found, HomesKept
      <4>3. rows'[call[r].id] # rows[call[r].id]
        BY <2>4, <3>2, <4>1 DEF Delete, DeleteRow, DeleteRows, Found, TypeOK, TableTypeOK
      <4>4. /\ call[r].id \in removed'[r]
            /\ \A q \in Requests \ {r} : removed'[q] = removed[q]
        BY <2>4, <4>1, <4>3 DEF Delete, Removes, TypeOK, HistoryTypeOK
      <4> QED
        BY <3>2, <4>1, <4>2, <4>4 DEF GoTo, OwnTodo, TypeOK, RequestTypeOK
    <3> QED
      BY <2>4, <3>1, <3>2 DEF Delete
  <2>5. ASSUME NEW r \in Requests, ListIDs(r) PROVE OwnTodo'
    <3>1. \A id \in IdsByHive(rows, call[r].hive) : home[id] = call[r].hive
      BY DEF IdsByHive, Found, HomesKept, TypeOK, TableTypeOK
    <3> QED
      BY <2>5, <3>1 DEF ListIDs, GoTo, ghosts, OwnTodo, TypeOK, RequestTypeOK
  <2>6. ASSUME NEW r \in Requests, CancelNext(r) PROVE OwnTodo'
    <3>1. CASE \E code, record, ids : Answer(r, code, record, ids)
      BY <3>1, <2>2
    <3>2. CASE /\ \E id \in todo[r] : todo' = [todo EXCEPT ![r] = @ \ {id}]
               /\ UNCHANGED <<pc, call, home, removed>>
      BY <2>6, <3>2 DEF CancelNext, OwnTodo, TypeOK, RequestTypeOK
    <3> QED
      BY <2>6, <3>1, <3>2 DEF CancelNext
  <2>7. ASSUME NEW r \in Requests,
               Insert(r) \/ Update(r) \/ Cleanup(r) \/ Purge(r) \/ Erase(r)
                 \/ Get(r) \/ CallFails(r)
        PROVE  OwnTodo'
    <3>1. \E code, record, ids : Answer(r, code, record, ids)
      BY <2>7 DEF Insert, Update, Cleanup, Purge, Erase, Get, CallFails, AnswerOrError
    <3> QED
      BY <3>1, <2>2
  <2>8. CASE Crash
    BY <2>8 DEF Crash, OwnTodo
  <2>9. CASE UNCHANGED <<todo, home, pc, call, removed>>
    BY <2>9 DEF OwnTodo
  <2> QED
    BY StepKinds, <2>1, <2>3, <2>4, <2>5, <2>6, <2>7, <2>8, <2>9
    DEF HiveMoves, ExistsCheck, ReminderIsStored, CloseAccount, vars, local, ghosts
<1> QED
  BY <1>1, <1>2, TypedControl, HomesAlwaysKept, PTL DEF Spec

\* No request cancels the reminder of a harvest that is not its caller's,
\* and a Delete none of a harvest it has not removed.
THEOREM CancelledOwnOnly == Spec => []CancelsOnlyOwn
<1>1. Init => CancelsOnlyOwn
  BY DEF Init, CancelsOnlyOwn
<1>2. TypeOK /\ Control /\ Admitted /\ OwnTodo /\ CancelsOnlyOwn /\ [Next]_vars
        => CancelsOnlyOwn'
  <2> SUFFICES ASSUME TypeOK, Control, Admitted, OwnTodo, CancelsOnlyOwn, [Next]_vars,
                      NEW q \in Requests, NEW id \in cancelled'[q]
               PROVE  /\ home'[id] # Null /\ Owner[home'[id]] = call'[q].user
                      /\ home'[id] = call'[q].hive
                      /\ call'[q].op = "delete" => id \in removed'[q]
    BY DEF CancelsOnlyOwn
  <2>1. CASE id \in cancelled[q] /\ call'[q] = call[q] /\ removed[q] \subseteq removed'[q]
    <3>1. /\ home[id] # Null /\ Owner[home[id]] = call[q].user /\ home[id] = call[q].hive
          /\ call[q].op = "delete" => id \in removed[q]
          /\ id \in HarvestIds
      BY <2>1 DEF CancelsOnlyOwn, TypeOK, HistoryTypeOK
    <3> QED
      BY <2>1, <3>1, HomeStep
  <2>2. ASSUME NEW r \in Requests, NEW i \in HarvestIds, home[i] = call[r].hive,
               pc[r] \in {"cleanup", "cancel"}, UNCHANGED <<home, call, removed>>,
               call[r].op = "delete" => i \in removed[r],
               cancelled' = [cancelled EXCEPT ![r] = @ \cup {i}]
        PROVE  /\ home'[id] # Null /\ Owner[home'[id]] = call'[q].user
               /\ home'[id] = call'[q].hive
               /\ call'[q].op = "delete" => id \in removed'[q]
    <3>1. CASE id \in cancelled[q]
      BY <2>1, <2>2, <3>1
    <3>2. CASE id \notin cancelled[q]
      <4>1. q = r /\ id = i
        BY <2>2, <3>2 DEF TypeOK, HistoryTypeOK
      <4>2. call[r].hive # Null
        BY <2>2, CallFields, RequestConstants DEF Control, InFlight
      <4> QED
        BY <2>2, <4>1, <4>2 DEF Admitted
    <3> QED
      BY <3>1, <3>2
  <2>3. ASSUME NEW r \in Requests, NEW c \in Calls, Begin(r, c)
        PROVE  id \in cancelled[q] /\ call'[q] = call[q] /\ removed'[q] = removed[q]
    BY <2>3 DEF Begin, TypeOK, HistoryTypeOK, RequestTypeOK
  <2>4. CASE \E r \in Requests : Cleanup(r)
    <3>1. PICK r \in Requests : Cleanup(r)
      BY <2>4
    <3>2. /\ call[r].id \in HarvestIds /\ home[call[r].id] = call[r].hive
          /\ call[r].id \in removed[r] /\ UNCHANGED <<home, call, removed>>
      BY <3>1, CallFields DEF Cleanup, Answer, Control, InFlight, OwnTodo
    <3> QED
      BY <2>1, <2>2, <3>1, <3>2 DEF Cleanup
  <2>5. CASE \E r \in Requests : CancelNext(r)
    <3>1. PICK r \in Requests : CancelNext(r)
      BY <2>5
    <3>2. call[r].op = "cascade" /\ UNCHANGED <<home, call, removed>>
      BY <3>1 DEF CancelNext, Answer, Control
    <3>3. CASE \E i \in todo[r] : cancelled' = [cancelled EXCEPT ![r] = @ \cup {i}]
      BY <2>2, <3>1, <3>2, <3>3 DEF CancelNext, OwnTodo, TypeOK, RequestTypeOK
    <3> QED
      BY <2>1, <3>1, <3>2, <3>3 DEF CancelNext
  <2>6. CASE UNCHANGED <<cancelled, call, removed>>
    BY <2>1, <2>6
  <2>7. ASSUME NEW r \in Requests, Delete(r)
        PROVE  UNCHANGED <<cancelled, call>> /\ removed[q] \subseteq removed'[q]
    BY <2>7 DEF Delete, Answer, Removes, TypeOK, HistoryTypeOK
  <2> QED
    BY StepKinds, <2>1, <2>3, <2>4, <2>5, <2>6, <2>7
    DEF Verify, Insert, Get, Load, Update, ListIDs, Purge, Erase, CallFails,
        AnswerOrError, Answer, Crash, HiveMoves, ExistsCheck, ReminderIsStored,
        CloseAccount, vars, local, ghosts
<1> QED
  BY <1>1, <1>2, TypedControl, AdmittedAlways, TodoAlwaysOwn, PTL DEF Spec

\* As long as no call fails, single requests leave a reminder over only for
\* an exists check that came before the DELETE.
THEOREM LeftOverOnlyIfAsked == Spec => LeftOnlyIfAsked
<1> DEFINE Cause(id) ==
      \/ reminder[id] = "asked"
      \/ \E r \in Requests : call[r].op \in {"cascade", "erase"} /\ pc'[r] # pc[r]
<1>1. TypeOK /\ Control /\ [Next]_vars =>
        [Faults \cap {"db", "reminder", "crash"} = {} =>
           \A id \in HarvestIds : ~LeftOver(id) /\ LeftOver(id)' => Cause(id)]_vars
  <2> SUFFICES ASSUME TypeOK, Control, [Next]_vars,
                      Faults \cap {"db", "reminder", "crash"} = {},
                      NEW id \in HarvestIds, ~LeftOver(id), LeftOver(id)'
               PROVE  Cause(id)
    OBVIOUS
  <2> HIDE DEF Cause
  <2>1. /\ home'[id] # Null /\ rows'[id] = Null /\ reminder'[id] = "set"
        /\ \A r \in Requests : pc'[r] = "cleanup" => call'[r].id # id
    BY DEF LeftOver
  <2>2. CASE rows'[id] # rows[id]
    <3>1. PICK r \in Requests :
            pc'[r] # pc[r] /\ (Delete(r) \/ Purge(r) \/ Erase(r)) /\ rows[id] # Null
      BY <2>1, <2>2, RowChange
    <3>2. CASE Delete(r)
      <4>1. call[r].id = id /\ Found(rows, call[r].hive, call[r].id)
        BY <2>2, <3>2 DEF Delete, DeleteRow, DeleteRows, TypeOK, TableTypeOK
      <4>2. GoTo(r, "cleanup") /\ UNCHANGED call
        BY <3>2, <4>1 DEF Delete
      <4> QED
        BY <2>1, <4>1, <4>2 DEF GoTo, TypeOK, RequestTypeOK
    <3> QED
      BY <3>1, <3>2 DEF Purge, Erase, Control, Cause
  <2>3. CASE rows'[id] = rows[id] /\ reminder'[id] # reminder[id]
    <3>1. ASSUME NEW x \in HarvestIds, Cancel(x) PROVE FALSE
      BY <2>1, <2>3, <3>1 DEF Cancel, TypeOK, ExternalTypeOK
    <3>2. ASSUME NEW r \in Requests, Cleanup(r) PROVE FALSE
      BY <2>3, <3>1, <3>2, CallFields DEF Cleanup, Control, InFlight
    <3>3. ASSUME NEW r \in Requests, CancelNext(r) PROVE FALSE
      BY <2>3, <3>1, <3>3 DEF CancelNext, TypeOK, RequestTypeOK
    <3>4. ASSUME NEW x \in HarvestIds, ExistsCheck(x) \/ ReminderIsStored(x)
          PROVE  reminder[id] = "asked"
      BY <2>1, <2>3, <3>4 DEF ExistsCheck, ReminderIsStored, TypeOK, ExternalTypeOK
    <3> QED
      BY StepKinds, <2>3, <3>2, <3>3, <3>4, ServiceConstants
      DEF Begin, Verify, Insert, Load, Update, Delete, ListIDs, Purge, Erase, Get,
          CallFails, Crash, HiveMoves, CloseAccount, vars, external, Cause
  <2>4. CASE rows'[id] = rows[id] /\ reminder'[id] = reminder[id]
    <3>1. CASE home[id] = Null
      <4>1. PICK r \in Requests : Insert(r)
        BY StepKinds, <2>1, <3>1
        DEF Begin, Verify, Load, Update, Delete, Cleanup, ListIDs, CancelNext, Purge,
            Erase, Get, CallFails, Crash, HiveMoves, ExistsCheck, ReminderIsStored,
            CloseAccount, vars
      <4>2. Row(call[r].hive, call[r].user, call[r].body) \in Rows
        BY <4>1, CallFields DEF Insert, Control, InFlight, Row, Rows
      <4>3. rows'[id] = Row(call[r].hive, call[r].user, call[r].body)
        BY <2>1, <3>1, <4>1 DEF Insert, CreateRow, TypeOK, TableTypeOK
      <4> QED
        BY <2>1, <4>2, <4>3, RequestConstants
    <3>2. CASE home[id] # Null
      <4>1. PICK r \in Requests : pc[r] = "cleanup" /\ call[r].id = id
        BY <2>1, <2>4, <3>2 DEF LeftOver
      <4>2. ~Crash
        BY DEF Crash
      <4>3. ~Cleanup(r)
        BY <2>1, <4>1 DEF Cleanup, Cancel, TypeOK, ExternalTypeOK
      <4>4. ASSUME NEW q \in Requests, q # r,
                   \/ \E c \in Calls : Begin(q, c)
                   \/ Verify(q) \/ Insert(q) \/ Load(q) \/ Update(q) \/ Delete(q)
                   \/ Cleanup(q) \/ ListIDs(q) \/ CancelNext(q) \/ Purge(q)
                   \/ Erase(q) \/ Get(q) \/ CallFails(q)
            PROVE  pc'[r] = pc[r] /\ call'[r] = call[r]
        BY <4>4 DEF Begin, Verify, Insert, Load, Update, Delete, Cleanup, ListIDs,
           CancelNext, Purge, Erase, Get, CallFails, GoTo, Answer, AnswerOrError,
           TypeOK, RequestTypeOK
      <4>5. \A c \in Calls : ~Begin(r, c)
        BY <4>1 DEF Begin
      <4>6. ~(\/ Verify(r) \/ Insert(r) \/ Load(r) \/ Update(r) \/ Delete(r)
             \/ ListIDs(r) \/ CancelNext(r) \/ Purge(r) \/ Erase(r) \/ Get(r))
        BY <4>1 DEF Verify, Insert, Load, Update, Delete, ListIDs, CancelNext, Purge,
           Erase, Get
      <4>7. ~CallFails(r)
        BY <4>1 DEF CallFails, Callee
      <4>8. pc'[r] = pc[r] /\ call'[r] = call[r]
        BY StepKinds, <4>2, <4>3, <4>4, <4>5, <4>6, <4>7
        DEF HiveMoves, ExistsCheck, ReminderIsStored, CloseAccount, vars, local
      <4> QED
        BY <2>1, <4>1, <4>8
    <3> QED
      BY <3>1, <3>2
  <2> QED
    BY <2>2, <2>3, <2>4
<1> QED
  BY <1>1, TypedControl, PTL DEF Spec, LeftOnlyIfAsked

\* An id that has a row had one before, unless it is new.
LEMMA RowWasThere ==
  ASSUME TypeOK, Control, [Next]_vars, NEW id \in HarvestIds,
         home[id] # Null, rows'[id] # Null
  PROVE  rows[id] # Null
  BY RowChange DEF Found

\* Rows seen when a cascade arrived are rows of the hive it names.
LEMMA PresentAlwaysOwn == Spec => []PresentIsOwn
<1>1. Init => PresentIsOwn
  BY DEF Init, PresentIsOwn, InFlight
<1>2. TypeOK /\ Control /\ HomesKept /\ PresentIsOwn /\ [Next]_vars => PresentIsOwn'
  <2> SUFFICES ASSUME TypeOK, Control, HomesKept, PresentIsOwn, [Next]_vars,
                      NEW q \in Requests, pc'[q] # "idle", call'[q].op = "cascade",
                      NEW id \in present'[q]
               PROVE  home'[id] = call'[q].hive
    BY DEF PresentIsOwn, InFlight
  <2>1. CASE pc[q] # "idle" /\ call'[q] = call[q] /\ present'[q] = present[q]
    <3>1. home[id] = call[q].hive /\ id \in HarvestIds
      BY <2>1 DEF PresentIsOwn, InFlight, TypeOK, HistoryTypeOK
    <3>2. home[id] # Null
      BY <2>1, <3>1, CallFields, RequestConstants DEF Control, InFlight
    <3> QED
      BY <2>1, <3>1, <3>2, HomeStep
  <2>2. ASSUME NEW r \in Requests, NEW c \in Calls, Begin(r, c)
        PROVE  home'[id] = call'[q].hive
    <3>1. CASE q = r
      <4>1. call'[q] = c /\ present'[q] = IdsByHive(rows, c.hive) /\ UNCHANGED home
        BY <2>2, <3>1 DEF Begin, TypeOK, RequestTypeOK, HistoryTypeOK
      <4> QED
        BY <4>1 DEF IdsByHive, Found, HomesKept, TypeOK, TableTypeOK
    <3>2. CASE q # r
      BY <2>1, <2>2, <3>2 DEF Begin, GoTo, TypeOK, RequestTypeOK, HistoryTypeOK
    <3> QED
      BY <3>1, <3>2
  <2>3. ASSUME NEW r \in Requests,
               Verify(r) \/ Load(r) \/ Delete(r) \/ ListIDs(r) \/ CancelNext(r)
                 \/ Insert(r) \/ Update(r) \/ Cleanup(r) \/ Purge(r) \/ Erase(r)
                 \/ Get(r) \/ CallFails(r)
        PROVE  pc[q] # "idle" /\ call'[q] = call[q] /\ present'[q] = present[q]
    <3>1. pc[r] # "idle" /\ UNCHANGED <<call, present>>
      BY <2>3 DEF Verify, Load, Delete, ListIDs, CancelNext, Insert, Update, Cleanup,
         Purge, Erase, Get, CallFails, AnswerOrError, Answer, InFlight, ghosts
    <3>2. q # r => pc'[q] = pc[q]
      BY <2>3 DEF Verify, Load, Delete, ListIDs, CancelNext, Insert, Update, Cleanup,
         Purge, Erase, Get, CallFails, AnswerOrError, Answer, GoTo, TypeOK, RequestTypeOK
    <3> QED
      BY <3>1, <3>2
  <2>4. CASE UNCHANGED <<pc, call, present>>
    BY <2>1, <2>4
  <2> QED
    BY StepKinds, <2>1, <2>2, <2>3, <2>4
    DEF Crash, HiveMoves, ExistsCheck, ReminderIsStored, CloseAccount, vars, local, ghosts
<1> QED
  BY <1>1, <1>2, TypedControl, HomesAlwaysKept, PTL DEF Spec

\* Of the rows seen when a cascade arrived, those still there are listed and
\* not yet cancelled, or cancelled.
LEMMA CascadeAlwaysCovers == Spec => []CascadeCovers
<1>1. Init => CascadeCovers
  BY DEF Init, CascadeCovers
<1>2. TypeOK /\ Control /\ HomesKept /\ PresentIsOwn /\ CascadeCovers /\ [Next]_vars
        => CascadeCovers'
  <2> SUFFICES ASSUME TypeOK, Control, HomesKept, PresentIsOwn, CascadeCovers,
                      [Next]_vars, NEW q \in Requests, pc'[q] = "cancel",
                      NEW id \in present'[q], rows'[id] # Null
               PROVE  id \in todo'[q] \cup cancelled'[q]
    BY DEF CascadeCovers
  <2>1. CASE /\ pc[q] = "cancel" /\ present'[q] = present[q]
             /\ todo[q] \cup cancelled[q] \subseteq todo'[q] \cup cancelled'[q]
    <3>1. id \in HarvestIds /\ home[id] # Null
      BY <2>1, CallFields, RequestConstants
      DEF PresentIsOwn, Control, InFlight, TypeOK, HistoryTypeOK
    <3> QED
      BY <2>1, <3>1, RowWasThere DEF CascadeCovers
  <2>2. ASSUME NEW r \in Requests, NEW c \in Calls, Begin(r, c)
        PROVE  id \in todo'[q] \cup cancelled'[q]
    <3>1. q # r
      BY <2>2 DEF Begin, GoTo, TypeOK, RequestTypeOK
    <3> QED
      BY <2>1, <2>2, <3>1 DEF Begin, GoTo, TypeOK, RequestTypeOK, HistoryTypeOK
  <2>3. ASSUME NEW r \in Requests, ListIDs(r)
        PROVE  id \in todo'[q] \cup cancelled'[q]
    <3>1. CASE q = r
      <4>1. /\ todo'[q] = IdsByHive(rows, call[q].hive)
            /\ id \in present[q] /\ rows[id] # Null /\ pc[q] = "listids"
        BY <2>3, <3>1 DEF ListIDs, TypeOK, RequestTypeOK, ghosts
      <4>2. id \in HarvestIds /\ home[id] = call[q].hive
        BY <4>1 DEF PresentIsOwn, Control, InFlight, TypeOK, HistoryTypeOK
      <4>3. Found(rows, call[q].hive, id)
        BY <4>1, <4>2 DEF Found, HomesKept
      <4> QED
        BY <4>1, <4>2, <4>3 DEF IdsByHive, TypeOK, TableTypeOK
    <3>2. CASE q # r
      BY <2>1, <2>3, <3>2 DEF ListIDs, GoTo, TypeOK, RequestTypeOK, ghosts
    <3> QED
      BY <3>1, <3>2
  <2>4. ASSUME NEW r \in Requests, CancelNext(r)
        PROVE  id \in todo'[q] \cup cancelled'[q]
    <3>1. CASE \E code, record, ids : Answer(r, code, record, ids)
      <4>1. q # r
        BY <3>1 DEF Answer, TypeOK, RequestTypeOK
      <4> QED
        BY <2>1, <2>4, <3>1, <4>1 DEF CancelNext, Answer, TypeOK, RequestTypeOK
    <3>2. CASE \E i \in todo[r] : /\ todo' = [todo EXCEPT ![r] = @ \ {i}]
                                  /\ cancelled' = [cancelled EXCEPT ![r] = @ \cup {i}]
                                  /\ UNCHANGED <<pc, present>>
      <4>1. todo[q] \cup cancelled[q] \subseteq todo'[q] \cup cancelled'[q]
        BY <3>2 DEF TypeOK, RequestTypeOK, HistoryTypeOK
      <4> QED
        BY <2>1, <3>2, <4>1
    <3> QED
      BY <2>4, <3>1, <3>2 DEF CancelNext
  <2>5. ASSUME NEW r \in Requests, Cleanup(r)
        PROVE  id \in todo'[q] \cup cancelled'[q]
    <3>1. q # r /\ pc[q] = "cancel" /\ todo'[q] = todo[q] /\ present'[q] = present[q]
      BY <2>5 DEF Cleanup, Answer, TypeOK, RequestTypeOK
    <3>2. cancelled'[q] = cancelled[q]
      BY <2>5, <3>1 DEF Cleanup, TypeOK, HistoryTypeOK
    <3> QED
      BY <2>1, <3>1, <3>2
  <2>6. ASSUME NEW r \in Requests,
               Verify(r) \/ Load(r) \/ Delete(r) \/ Insert(r) \/ Update(r)
                 \/ Purge(r) \/ Erase(r) \/ Get(r) \/ CallFails(r)
        PROVE  id \in todo'[q] \cup cancelled'[q]
    <3>1. UNCHANGED <<cancelled, present>>
      BY <2>6 DEF Verify, Load, Delete, Insert, Update, Purge, Erase, Get, CallFails
    <3>2. \A i \in Requests : AfterVerify[call[i].op] # "cancel" \/ ~Verify(i)
      BY CallFields DEF Verify, Control, OpNames, InFlight, AfterVerify
    <3>3. q # r
      BY <2>6, <3>2 DEF Verify, Load, Delete, Insert, Update, Purge, Erase, Get, CallFails,
         AnswerOrError, Answer, GoTo, TypeOK, RequestTypeOK
    <3>4. pc'[q] = pc[q] /\ todo'[q] = todo[q]
      BY <2>6, <3>3 DEF Verify, Load, Delete, Insert, Update, Purge, Erase, Get, CallFails,
         AnswerOrError, Answer, GoTo, TypeOK, RequestTypeOK
    <3> QED
      BY <2>1, <3>1, <3>4
  <2>7. CASE UNCHANGED <<pc, todo, present, cancelled>>
    BY <2>1, <2>7
  <2> QED
    BY StepKinds, <2>2, <2>3, <2>4, <2>5, <2>6, <2>7
    DEF Crash, HiveMoves, ExistsCheck, ReminderIsStored, CloseAccount, vars, local, ghosts
<1> QED
  BY <1>1, <1>2, TypedControl, HomesAlwaysKept, PresentAlwaysOwn, PTL DEF Spec

\* A cascade removes no row it found on arrival before cancelling its
\* reminder.
THEOREM CascadesCancelFirst == Spec => CascadeCancelsFirst
<1> DEFINE A == \A r \in Requests :
       pc[r] # "idle" /\ call[r].op = "cascade" /\ rows' # rows /\ pc'[r] # pc[r] =>
         \A id \in present[r] : rows[id] # Null => id \in cancelled[r]
<1>1. TypeOK /\ Control /\ OwnTodo /\ CascadeCovers /\ [Next]_vars => [A]_vars
  <2> SUFFICES ASSUME TypeOK, Control, CascadeCovers, [Next]_vars,
                      NEW r \in Requests, call[r].op = "cascade",
                      rows' # rows, pc'[r] # pc[r],
                      NEW id \in present[r], rows[id] # Null
               PROVE  id \in cancelled[r]
    OBVIOUS
  <2>1. PICK q \in Requests :
          Insert(q) \/ Update(q) \/ Delete(q) \/ Purge(q) \/ Erase(q)
    BY StepKinds DEF Begin, Verify, Load, Cleanup, ListIDs, CancelNext, Get, CallFails,
       Crash, HiveMoves, ExistsCheck, ReminderIsStored, CloseAccount, vars
  <2>2. q = r
    BY <2>1 DEF Insert, Update, Delete, Purge, Erase, AnswerOrError, Answer, GoTo,
       TypeOK, RequestTypeOK
  <2>3. Purge(r)
    BY <2>1, <2>2 DEF Insert, Update, Delete, Erase, Control
  <2> QED
    BY <2>3 DEF Purge, CascadeCovers
<1> QED
  BY <1>1, TypedControl, TodoAlwaysOwn, CascadeAlwaysCovers, PTL
  DEF Spec, CascadeCancelsFirst

\* No row of a closed account comes back once none is left and no create of
\* that account is under way.
THEOREM ErasedForGood == Spec => ErasureIsFinal
<1>1. TypeOK /\ Control /\ [Next]_vars => [\A u \in Users : Erased(u) => Erased(u)']_vars
  <2> SUFFICES ASSUME TypeOK, Control, [Next]_vars, NEW u \in Users, Erased(u)
               PROVE  Erased(u)'
    OBVIOUS
  <2>1. u \notin accounts'
    BY StepKinds DEF Begin, Verify, Insert, Load, Update, Delete, Cleanup, ListIDs,
       CancelNext, Purge, Erase, Get, CallFails, Crash, HiveMoves, ExistsCheck,
       ReminderIsStored, CloseAccount, vars, external, Erased
  <2>2. ASSUME NEW r \in Requests, pc'[r] # "idle", call'[r].op = "create"
        PROVE  call'[r].user # u
    <3>1. CASE call'[r] = call[r] /\ pc[r] # "idle"
      BY <2>2, <3>1 DEF Erased, InFlight
    <3>2. ASSUME NEW q \in Requests, NEW c \in Calls, Begin(q, c)
          PROVE  call'[r].user # u
      <4>1. CASE q = r
        BY <2>2, <3>2, <4>1 DEF Begin, Erased, TypeOK, RequestTypeOK
      <4>2. CASE q # r
        BY <3>1, <2>2, <3>2, <4>2 DEF Begin, GoTo, TypeOK, RequestTypeOK
      <4> QED
        BY <4>1, <4>2
    <3>3. ASSUME NEW q \in Requests,
                 Verify(q) \/ Load(q) \/ Delete(q) \/ ListIDs(q) \/ CancelNext(q)
                   \/ Insert(q) \/ Update(q) \/ Cleanup(q) \/ Purge(q) \/ Erase(q)
                   \/ Get(q) \/ CallFails(q)
          PROVE  call'[r] = call[r] /\ pc[r] # "idle"
      <4>1. pc[q] # "idle" /\ UNCHANGED call
        BY <3>3 DEF Verify, Load, Delete, ListIDs, CancelNext, Insert, Update, Cleanup,
           Purge, Erase, Get, CallFails, AnswerOrError, Answer, InFlight
      <4>2. q # r => pc'[r] = pc[r]
        BY <3>3 DEF Verify, Load, Delete, ListIDs, CancelNext, Insert, Update, Cleanup,
           Purge, Erase, Get, CallFails, AnswerOrError, Answer, GoTo, TypeOK, RequestTypeOK
      <4> QED
        BY <2>2, <4>1, <4>2
    <3>4. CASE Crash
      BY <2>2, <3>4 DEF Crash
    <3>5. CASE UNCHANGED <<pc, call>>
      BY <2>2, <3>1, <3>5
    <3> QED
      BY StepKinds, <3>1, <3>2, <3>3, <3>4, <3>5
      DEF HiveMoves, ExistsCheck, ReminderIsStored, CloseAccount, vars, local
  <2>3. ASSUME NEW id \in HarvestIds, rows'[id] # Null, rows'[id].user = u
        PROVE  FALSE
    <3>1. CASE rows'[id] = rows[id]
      BY <2>3, <3>1 DEF Erased, IdsByUser, TypeOK, TableTypeOK
    <3>2. CASE rows'[id] # rows[id]
      <4>1. PICK r \in Requests :
              \/ Insert(r) /\ rows'[id] = Row(call[r].hive, call[r].user, call[r].body)
              \/ /\ rows[id] # Null
                 /\ rows'[id] = Row(call[r].hive, rows[id].user, call[r].body)
        BY <2>3, <3>2, RowChange DEF Found
      <4>2. CASE Insert(r) /\ rows'[id] = Row(call[r].hive, call[r].user, call[r].body)
        BY <2>3, <4>2 DEF Insert, Row, Control, Erased, InFlight
      <4>3. CASE /\ rows[id] # Null
                 /\ rows'[id] = Row(call[r].hive, rows[id].user, call[r].body)
        BY <2>3, <4>3 DEF Row, Erased, IdsByUser, TypeOK, TableTypeOK
      <4> QED
        BY <4>1, <4>2, <4>3
    <3> QED
      BY <3>1, <3>2
  <2>4. DOMAIN rows' = HarvestIds
    BY StepKinds DEF Begin, Verify, Insert, Load, Update, Delete, Cleanup, ListIDs,
       CancelNext, Purge, Erase, Get, CallFails, Crash, HiveMoves, ExistsCheck,
       ReminderIsStored, CloseAccount, vars, TypeOK, TableTypeOK, CreateRow, UpdateRow,
       DeleteRow, DeleteByHive, DeleteAllByUser, DeleteRows
  <2> QED
    BY <2>1, <2>2, <2>3, <2>4 DEF Erased, InFlight, IdsByUser
<1> QED
  BY <1>1, TypedControl, PTL DEF Spec, ErasureIsFinal
=============================================================================
