--------------------------- MODULE HarvestService ---------------------------
(***************************************************************************)
(* The requests of harvest-service that touch single records, a whole hive *)
(* or a whole account, interleaved call by call.                           *)
(*                                                                         *)
(* Every HTTP request runs in a goroutine of its own and holds no lock and *)
(* no transaction: it calls hive-service (Verify), then PostgreSQL, then   *)
(* notification-service, and between two calls anything may happen.  One   *)
(* action below is one such call with the code up to the next one.  pc[r]  *)
(* names the call request r makes next.                                    *)
(*                                                                         *)
(*   create   verify -> insert                                             *)
(*   get      verify -> get                                                *)
(*   update   verify -> load -> update                                     *)
(*   delete   verify -> delete -> cleanup                                  *)
(*   cascade  verify -> listids -> cancel* -> purge     (DeleteByHive)     *)
(*   erase    erase                                     (DeleteAllByUser)  *)
(*                                                                         *)
(* Each call may fail, with or without having taken effect at the callee   *)
(* (a timeout, a lost connection, the 30 s deadline of the request, the    *)
(* client hanging up: all cancel the context the call runs under).  The    *)
(* process may crash.  What hive-service, notification-service and the     *)
(* account service do on their own is external, see the last actions.      *)
(***************************************************************************)
EXTENDS HarvestRequests, Integers, FiniteSets

CONSTANTS
  HiveStates,   \* states hive-service moves hives between
  Reminded,     \* ids notification-service is asked to set reminders for
  Faults        \* the failures that may happen

ASSUME ServiceConstants ==
  /\ Reminded \subseteq HarvestIds
  /\ HiveStates \subseteq {"writable", "readonly", "gone"}
  /\ Faults \subseteq {"hive", "db", "reminder", "crash"}

VARIABLES
  rows,      \* the harvests table
  home,      \* history: the hive an id's row was first under, Null if never
  pc,        \* the next call of each request
  call,      \* what the client asked
  loaded,    \* the record Update has read
  todo,      \* the ids DeleteByHive has still to cancel the reminders of
  reply,     \* the last answer: code, record in the body, DeleteByHive's ids
  cancelled, \* history: ids whose reminder cleanup the request saw succeed
  present,   \* history: rows of the named hive when the request arrived
  removed,   \* history: ids of the rows the request's DELETE has removed
  seen,      \* history: states its hive was in since the request arrived
  hive,      \* hive-service: the state of each hive
  reminder,  \* notification-service: "none", "asked" (exists) or "set"
  accounts   \* account service: users whose tokens are still accepted

local == <<pc, call, loaded, todo, reply>>
ghosts == <<cancelled, present, removed, seen>>
external == <<hive, reminder, accounts>>
vars == <<rows, home, local, ghosts, external>>
-----------------------------------------------------------------------------
InFlight(r) == pc[r] # "idle"
Fresh == {id \in HarvestIds : home[id] = Null}

\* The request is over: code and record go to the client, the stack is gone.
Answer(r, code, record, ids) ==
  /\ pc' = [pc EXCEPT ![r] = "idle"]
  /\ reply' = [reply EXCEPT ![r] = Says(code, record, ids)]
  /\ loaded' = [loaded EXCEPT ![r] = Null]
  /\ todo' = [todo EXCEPT ![r] = {}]
  /\ seen' = [seen EXCEPT ![r] = {}]
  /\ UNCHANGED call

\* What the caller hears of a statement that took effect: the answer, or,
\* the result being lost on the way, an internal error.
AnswerOrError(r, code, record, ids) ==
  \/ Answer(r, code, record, ids)
  \/ "db" \in Faults /\ Answer(r, "internal_error", Null, {})

GoTo(r, step) == pc' = [pc EXCEPT ![r] = step]

Init ==
  /\ rows \in StartingRows
  /\ home = HivesOf(rows)
  /\ pc = [r \in Requests |-> "idle"]
  /\ call = [r \in Requests |-> NoCall]
  /\ loaded = [r \in Requests |-> Null]
  /\ todo = [r \in Requests |-> {}]
  /\ reply = [r \in Requests |-> NoReply]
  /\ cancelled = [r \in Requests |-> {}]
  /\ present = [r \in Requests |-> {}]
  /\ removed = [r \in Requests |-> {}]
  /\ seen = [r \in Requests |-> {}]
  /\ hive \in [HiveIds -> HiveStates \ {"gone"}]
  /\ reminder = [id \in HarvestIds |-> "none"]
  /\ accounts = Users
-----------------------------------------------------------------------------
(* The requests.                                                           *)

\* Bound: a create starts only while a fresh uuid is left for it.
IdLeft(op) ==
  op = "create" =>
    Cardinality({q \in Requests : InFlight(q) /\ call[q].op = "create"})
      < Cardinality(Fresh)

\* A request arrives with a token still accepted (erase: the internal one)
\* and well-formed path ids; the body is validated before any call is made.
Begin(r, c) ==
  /\ pc[r] = "idle"
  /\ c.op = "erase" \/ c.user \in accounts
  /\ IdLeft(c.op)
  /\ call' = [call EXCEPT ![r] = c]
  /\ cancelled' = [cancelled EXCEPT ![r] = {}]
  /\ removed' = [removed EXCEPT ![r] = {}]
  /\ present' = [present EXCEPT ![r] =
                   IF c.op = "cascade" THEN IdsByHive(rows, c.hive) ELSE {}]
  /\ IF Malformed(c)
     THEN /\ reply' = [reply EXCEPT ![r] = Says("validation_error", Null, {})]
          /\ UNCHANGED <<pc, seen>>
     ELSE /\ reply' = [reply EXCEPT ![r] = NoReply]
          /\ GoTo(r, IF c.op = "erase" THEN "erase" ELSE "verify")
          /\ seen' = [seen EXCEPT ![r] =
                        IF c.op = "erase" THEN {} ELSE {hive[c.hive]}]
  /\ UNCHANGED <<rows, home, loaded, todo, external>>

AfterVerify ==
  [create |-> "insert", get |-> "get", update |-> "load",
   delete |-> "delete", cascade |-> "listids"]

\* Mutant: the hive is looked up for anybody.
HiveSaysToAnyone(h, u) == IF hive[h] = "gone" THEN "not_found" ELSE hive[h]

\* hive-service answers 404 for a hive that is gone or another user's, and
\* otherwise whether it is writable.
HiveSays(h, u) ==
  IF hive[h] = "gone" \/ Owner[h] # u THEN "not_found" ELSE hive[h]

\* Mutant: a read-only hive still takes updates.
NeedsWritableHiveOnCreate(op) == op = "create"

NeedsWritableHive(op) == op \in {"create", "update"}

Verify(r) ==
  LET c == call[r]
      answer == HiveSays(c.hive, c.user)
  IN
  /\ pc[r] = "verify"
  /\ \/ /\ answer = "not_found"
        /\ Answer(r, "hive_not_found", Null, {})
     \/ /\ answer = "readonly" /\ NeedsWritableHive(c.op)
        /\ Answer(r, "parent_resource_pro_locked", Null, {})
     \/ /\ answer \in {"writable", "readonly"}
        /\ NeedsWritableHive(c.op) => answer = "writable"
        /\ GoTo(r, AfterVerify[c.op])
        /\ UNCHANGED <<call, loaded, todo, reply, seen>>
  /\ UNCHANGED <<rows, home, cancelled, present, removed, external>>

\* harvest.New picks a uuid nobody has; the row is stamped with the caller.
Insert(r) ==
  LET row == Row(call[r].hive, call[r].user, call[r].body) IN
  /\ pc[r] = "insert"
  /\ \E id \in Fresh :
       /\ rows' = CreateRow(rows, id, row)
       /\ home' = [home EXCEPT ![id] = row.hive]
       /\ AnswerOrError(r, "created", Record(id, row), {})
  /\ UNCHANGED <<cancelled, present, removed, external>>

Get(r) ==
  LET c == call[r] IN
  /\ pc[r] = "get"
  /\ IF Found(rows, c.hive, c.id)
     THEN Answer(r, "ok", Record(c.id, rows[c.id]), {})
     ELSE Answer(r, "harvest_not_found", Null, {})
  /\ UNCHANGED <<rows, home, cancelled, present, removed, external>>

\* Update, first half: GetByID.
Load(r) ==
  LET c == call[r] IN
  /\ pc[r] = "load"
  /\ \/ /\ Found(rows, c.hive, c.id)
        /\ loaded' = [loaded EXCEPT ![r] = rows[c.id]]
        /\ GoTo(r, "update")
        /\ UNCHANGED <<call, todo, reply, seen>>
     \/ /\ ~Found(rows, c.hive, c.id)
        /\ Answer(r, "harvest_not_found", Null, {})
  /\ UNCHANGED <<rows, home, cancelled, present, removed, external>>

\* Mutant: the number of rows the UPDATE touched is not looked at.
UpdateUnchecked(r) ==
  LET c == call[r]
      h == Row(loaded[r].hive, loaded[r].user, c.body)
  IN
  /\ pc[r] = "update"
  /\ rows' = UpdateRow(rows, h.hive, c.id, h.body)
  /\ AnswerOrError(r, "ok", Record(c.id, h), {})
  /\ UNCHANGED <<home, cancelled, present, removed, external>>

\* Mutant: the loaded record is saved, whether its row is there or not.
UpdateSaves(r) ==
  LET c == call[r]
      h == Row(loaded[r].hive, loaded[r].user, c.body)
  IN
  /\ pc[r] = "update"
  /\ rows' = CreateRow(rows, c.id, h)
  /\ AnswerOrError(r, "ok", Record(c.id, h), {})
  /\ UNCHANGED <<home, cancelled, present, removed, external>>

\* Update, second half: the loaded record with the new fields is written, if
\* its row is still there, and shown.
Update(r) ==
  LET c == call[r]
      h == Row(loaded[r].hive, loaded[r].user, c.body)
  IN
  /\ pc[r] = "update"
  /\ rows' = UpdateRow(rows, h.hive, c.id, h.body)
  /\ IF Found(rows, h.hive, c.id)
     THEN AnswerOrError(r, "ok", Record(c.id, h), {})
     ELSE Answer(r, "harvest_not_found", Null, {})
  /\ UNCHANGED <<home, cancelled, present, removed, external>>

Removes(r) ==
  removed' = [removed EXCEPT ![r] = @ \cup {id \in HarvestIds : rows'[id] # rows[id]}]

\* Mutant: reminders are cancelled whatever the DELETE found.
DeleteBlindly(r) ==
  LET c == call[r] IN
  /\ pc[r] = "delete"
  /\ rows' = DeleteRow(rows, c.hive, c.id)
  /\ Removes(r)
  /\ GoTo(r, "cleanup")
  /\ UNCHANGED <<home, call, loaded, todo, reply, seen, cancelled, present, external>>

\* Mutant: the answer goes out without a cleanup.
DeleteAlone(r) ==
  LET c == call[r] IN
  /\ pc[r] = "delete"
  /\ rows' = DeleteRow(rows, c.hive, c.id)
  /\ Removes(r)
  /\ Answer(r, IF Found(rows, c.hive, c.id) THEN "no_content" ELSE "harvest_not_found",
            Null, {})
  /\ UNCHANGED <<home, cancelled, present, external>>

\* The row goes first; an error here ends the request, committed or not.
Delete(r) ==
  LET c == call[r] IN
  /\ pc[r] = "delete"
  /\ rows' = DeleteRow(rows, c.hive, c.id)
  /\ Removes(r)
  /\ \/ /\ Found(rows, c.hive, c.id)
        /\ GoTo(r, "cleanup")
        /\ UNCHANGED <<call, loaded, todo, reply, seen>>
     \/ /\ Found(rows, c.hive, c.id)
        /\ "db" \in Faults
        /\ Answer(r, "internal_error", Null, {})
     \/ /\ ~Found(rows, c.hive, c.id)
        /\ Answer(r, "harvest_not_found", Null, {})
  /\ UNCHANGED <<home, cancelled, present, external>>

Cancel(id) ==
  reminder' = [reminder EXCEPT ![id] = IF @ = "set" THEN "none" ELSE @]

\* After a Delete the handler cancels the reminder once and only logs an
\* error: 204 either way.
Cleanup(r) ==
  LET id == call[r].id IN
  /\ pc[r] = "cleanup"
  /\ \/ /\ Cancel(id)
        /\ cancelled' = [cancelled EXCEPT ![r] = @ \cup {id}]
     \/ /\ "reminder" \in Faults
        /\ Cancel(id) \/ UNCHANGED reminder
        /\ UNCHANGED cancelled
  /\ Answer(r, "no_content", Null, {})
  /\ UNCHANGED <<rows, home, present, removed, hive, accounts>>

ListIDs(r) ==
  /\ pc[r] = "listids"
  /\ todo' = [todo EXCEPT ![r] = IdsByHive(rows, call[r].hive)]
  /\ GoTo(r, "cancel")
  /\ UNCHANGED <<rows, home, call, loaded, reply, ghosts, external>>

\* Mutant: a failed cleanup is passed over, as Delete does.
CancelBestEffort(r) ==
  /\ pc[r] = "cancel"
  /\ \E id \in todo[r] :
       /\ todo' = [todo EXCEPT ![r] = @ \ {id}]
       /\ \/ Cancel(id) /\ cancelled' = [cancelled EXCEPT ![r] = @ \cup {id}]
          \/ "reminder" \in Faults /\ UNCHANGED <<reminder, cancelled>>
  /\ UNCHANGED <<rows, home, pc, call, loaded, reply, seen, present, removed,
                 hive, accounts>>

\* Mutant: the ids are listed anew after every cleanup.
CancelAndRelist(r) ==
  /\ pc[r] = "cancel"
  /\ \E id \in todo[r] : Cancel(id)
  /\ GoTo(r, "listids")
  /\ UNCHANGED <<rows, home, call, loaded, todo, reply, ghosts, hive, accounts>>

\* One turn of DeleteByHive's loop; the first error ends the request with
\* every row still there.
CancelNext(r) ==
  /\ pc[r] = "cancel"
  /\ \E id \in todo[r] :
       \/ /\ Cancel(id)
          /\ todo' = [todo EXCEPT ![r] = @ \ {id}]
          /\ cancelled' = [cancelled EXCEPT ![r] = @ \cup {id}]
          /\ UNCHANGED <<pc, call, loaded, reply, seen>>
       \/ /\ "reminder" \in Faults
          /\ Cancel(id) \/ UNCHANGED reminder
          /\ Answer(r, "internal_error", Null, {})
          /\ UNCHANGED cancelled
  /\ UNCHANGED <<rows, home, present, removed, hive, accounts>>

\* DELETE ... WHERE hive_id RETURNING id, whatever was listed before.
Purge(r) ==
  LET h == call[r].hive IN
  /\ pc[r] = "cancel"
  /\ todo[r] = {}
  /\ rows' = DeleteByHive(rows, h)
  /\ AnswerOrError(r, "no_content", Null, IdsByHive(rows, h))
  /\ UNCHANGED <<home, cancelled, present, removed, external>>

Erase(r) ==
  /\ pc[r] = "erase"
  /\ rows' = DeleteAllByUser(rows, call[r].user)
  /\ \/ Answer(r, "no_content", Null, {})
     \/ "db" \in Faults /\ Answer(r, "cleanup_failed", Null, {})
  /\ UNCHANGED <<home, cancelled, present, removed, external>>

\* The service that request r calls next.
Callee(r) ==
  CASE pc[r] = "verify"                                 -> "hive"
    [] pc[r] = "cleanup"                                -> "reminder"
    [] pc[r] = "cancel" /\ todo[r] # {}                 -> "reminder"
    [] OTHER                                            -> "db"

\* A call to hive-service or PostgreSQL fails and nothing happened there.
CallFails(r) ==
  /\ InFlight(r)
  /\ Callee(r) \in {"hive", "db"} \cap Faults
  /\ Answer(r, IF pc[r] = "erase" THEN "cleanup_failed" ELSE "internal_error",
            Null, {})
  /\ UNCHANGED <<rows, home, cancelled, present, removed, external>>

\* The process dies and is started again: requests in flight are gone,
\* nothing is recovered, the table is what was committed.
Crash ==
  /\ "crash" \in Faults
  /\ \E r \in Requests : InFlight(r)
  /\ pc' = [r \in Requests |-> "idle"]
  /\ reply' = [r \in Requests |->
                 IF InFlight(r) THEN Says("lost", Null, {}) ELSE reply[r]]
  /\ loaded' = [r \in Requests |-> Null]
  /\ todo' = [r \in Requests |-> {}]
  /\ seen' = [r \in Requests |-> {}]
  /\ UNCHANGED <<rows, home, call, cancelled, present, removed, external>>

\* The work of request r once it has arrived.
Work(r) ==
  \/ Verify(r) \/ Insert(r) \/ Get(r) \/ Load(r) \/ Update(r) \/ Delete(r)
  \/ Cleanup(r) \/ ListIDs(r) \/ CancelNext(r) \/ Purge(r) \/ Erase(r)
  \/ CallFails(r)
-----------------------------------------------------------------------------
(* The other services, external: what they do between two calls.           *)

\* A subscription ends or is renewed, or the hive is deleted for good.
HiveMoves(h, s) ==
  /\ hive[h] \notin {"gone", s}
  /\ hive' = [hive EXCEPT ![h] = s]
  /\ seen' = [r \in Requests |->
                IF InFlight(r) /\ call[r].hive = h THEN seen[r] \cup {s} ELSE seen[r]]
  /\ UNCHANGED <<rows, home, local, cancelled, present, removed, reminder, accounts>>

\* Before notification-service stores a reminder it asks this service
\* whether the harvest exists (existsHandler); storing comes later.
ExistsCheck(id) ==
  /\ rows[id] # Null
  /\ reminder[id] = "none"
  /\ reminder' = [reminder EXCEPT ![id] = "asked"]
  /\ UNCHANGED <<rows, home, local, ghosts, hive, accounts>>

ReminderIsStored(id) ==
  /\ reminder[id] = "asked"
  /\ reminder' = [reminder EXCEPT ![id] = "set"]
  /\ UNCHANGED <<rows, home, local, ghosts, hive, accounts>>

CloseAccount(u) ==
  /\ u \in accounts
  /\ accounts' = accounts \ {u}
  /\ UNCHANGED <<rows, home, local, ghosts, hive, reminder>>

External ==
  \/ \E h \in HiveIds, s \in HiveStates : HiveMoves(h, s)
  \/ \E id \in Reminded : ExistsCheck(id) \/ ReminderIsStored(id)
  \/ "erase" \in Ops /\ \E u \in Users : CloseAccount(u)
-----------------------------------------------------------------------------
Next ==
  \/ \E r \in Requests : Work(r) \/ \E c \in Calls : Begin(r, c)
  \/ Crash
  \/ External

Spec == Init /\ [][Next]_vars

\* The Go scheduler runs every goroutine, and every call a request makes
\* ends: 5 s for hive-service, 3 s for notification-service, the request's
\* own 30 s for PostgreSQL.  Clients, failures and other services are free.
FairSpec == Spec /\ \A r \in Requests : WF_vars(Work(r))
-----------------------------------------------------------------------------
(* Properties.                                                             *)

PCs == {"idle", "verify", "insert", "get", "load", "update", "delete",
        "cleanup", "listids", "cancel", "erase"}
Codes == {"none", "created", "ok", "no_content", "hive_not_found",
          "harvest_not_found", "parent_resource_pro_locked",
          "validation_error", "internal_error", "cleanup_failed", "lost"}

TableTypeOK ==
  /\ rows \in [HarvestIds -> Rows \cup {Null}]
  /\ home \in [HarvestIds -> HiveIds \cup {Null}]
RequestTypeOK ==
  /\ pc \in [Requests -> PCs]
  /\ call \in [Requests -> Calls \cup {NoCall}]
  /\ loaded \in [Requests -> Rows \cup {Null}]
  /\ todo \in [Requests -> SUBSET HarvestIds]
  /\ reply \in [Requests -> [code : Codes, record : Records \cup {Null},
                             ids : SUBSET HarvestIds]]
  /\ seen \in [Requests -> SUBSET {"writable", "readonly", "gone"}]
HistoryTypeOK ==
  /\ cancelled \in [Requests -> SUBSET HarvestIds]
  /\ present \in [Requests -> SUBSET HarvestIds]
  /\ removed \in [Requests -> SUBSET HarvestIds]
ExternalTypeOK ==
  /\ hive \in [HiveIds -> {"writable", "readonly", "gone"}]
  /\ reminder \in [HarvestIds -> {"none", "asked", "set"}]
  /\ accounts \in SUBSET Users

\* Every variable holds a value of its kind; in particular a record in an
\* answer has exactly the fields a client may see.
TypeOK == TableTypeOK /\ RequestTypeOK /\ HistoryTypeOK /\ ExternalTypeOK

\* How far a request has come says which operation it is, and that its body
\* was accepted; the record Update holds is of the hive the path names.
Control ==
  \A r \in Requests : LET c == call[r] IN
    /\ InFlight(r) => c \in Calls /\ ~Malformed(c)
    /\ pc[r] = "verify" => c.op # "erase"
    /\ pc[r] = "insert" => c.op = "create"
    /\ pc[r] = "get" => c.op = "get"
    /\ pc[r] \in {"load", "update"} => c.op = "update"
    /\ pc[r] \in {"delete", "cleanup"} => c.op = "delete"
    /\ pc[r] \in {"listids", "cancel"} => c.op = "cascade"
    /\ pc[r] = "erase" => c.op = "erase"
    /\ pc[r] = "update" => loaded[r] # Null /\ loaded[r].hive = c.hive

\* Past Verify, the caller owns the hive, and the hive existed, and for a
\* write was writable, at some instant since the request arrived.
Admitted ==
  \A r \in Requests : LET c == call[r] IN
    /\ pc[r] = "verify" => hive[c.hive] \in seen[r]
    /\ pc[r] \notin {"idle", "verify", "erase"} =>
         Owner[c.hive] = c.user /\ seen[r] \ {"gone"} # {}
    /\ pc[r] \in {"insert", "load", "update"} => "writable" \in seen[r]

\* A row lies under the hive its id was first under.
HomesKept == \A id \in HarvestIds : rows[id] # Null => home[id] = rows[id].hive

\* What a request is about to cancel was a harvest of its own hive.
OwnTodo ==
  \A r \in Requests :
    /\ \A id \in todo[r] : home[id] = call[r].hive
    /\ todo[r] # {} => pc[r] = "cancel"
    /\ pc[r] = "cleanup" => home[call[r].id] = call[r].hive /\ call[r].id \in removed[r]

\* A cascade's rows are still to be listed, still to be cancelled, or done.
CascadeCovers ==
  \A r \in Requests : pc[r] = "cancel" =>
    \A id \in present[r] : rows[id] # Null => id \in todo[r] \cup cancelled[r]
PresentIsOwn ==
  \A r \in Requests : InFlight(r) /\ call[r].op = "cascade" =>
    \A id \in present[r] : home[id] = call[r].hive

\* A row's user_id is NULL or the owner of its hive, although nobody
\* compares the two: the stamp is the caller's id, the hive is the path's,
\* and only Verify ties them together, one call before the INSERT.  Account
\* deletion relies on it: it goes by user_id alone.
OwnerStamped ==
  \A id \in HarvestIds : rows[id] # Null => rows[id].user \in {Null, Owner[rows[id].hive]}

\* Whatever product/unit pair a row holds was validated, through POST or
\* PUT, whichever wrote it last: the table's CHECKs do not cover the pair.
RowsWellFormed ==
  \A id \in HarvestIds : rows[id] # Null => rows[id].body \in ValidBodies

\* A record is shown to the owner of its hive and to nobody else, also when
\* the path pairs one's own hive with the id of another hive's record.
DisclosureOnlyToOwner ==
  \A r \in Requests : LET shown == reply[r].record IN
    shown # Null => Owner[shown.hive] = call[r].user

\* No request makes notification-service drop the reminders of a harvest
\* under another user's hive, and a Delete cancels only what its own DELETE
\* removed: not for a record that was never there, nor for one that another
\* request took away first.
CancelsOnlyOwn ==
  \A r \in Requests : \A id \in cancelled[r] :
    /\ home[id] # Null /\ Owner[home[id]] = call[r].user /\ home[id] = call[r].hive
    /\ call[r].op = "delete" => id \in removed[r]

\* A removed harvest never comes back, under any hive: not by a late
\* UPDATE, a retry, or a uuid reused.
NoResurrection ==
  [][\A id \in HarvestIds :
       home[id] # Null /\ rows[id] = Null => rows'[id] = Null]_vars

\* A row appears, changes or goes only through the call of a request whose
\* caller owns the hive, and, to appear or change, only if hive-service
\* called the hive writable at some instant since that request arrived.
\* (Not at the instant of the write: nothing holds the hive still between
\* Verify and the statement.)  Or the rows of the account are being erased.
LiveEntitlement ==
  [][\A id \in HarvestIds : rows'[id] # rows[id] =>
       \E r \in Requests : LET c == call[r] IN
         /\ pc[r] # "idle" /\ pc'[r] # pc[r]
         /\ \/ /\ c.op \in {"create", "update"}
               /\ rows'[id] # Null /\ rows'[id].hive = c.hive
               /\ Owner[c.hive] = c.user /\ "writable" \in seen[r]
            \/ /\ c.op \in {"delete", "cascade"}
               /\ rows'[id] = Null /\ rows[id].hive = c.hive
               /\ Owner[c.hive] = c.user /\ seen[r] \ {"gone"} # {}
            \/ /\ c.op = "erase"
               /\ rows'[id] = Null /\ rows[id].user = c.user]_vars

\* A row that was there when a cascade arrived and goes by that cascade's
\* DELETE had its reminder cancelled by it first; a cascade that fails on
\* the way has removed nothing, so that its retry finds every id again.
CascadeCancelsFirst ==
  [][\A r \in Requests :
       pc[r] # "idle" /\ call[r].op = "cascade" /\ rows' # rows /\ pc'[r] # pc[r] =>
         \A id \in present[r] : rows[id] # Null => id \in cancelled[r]]_vars

\* Once an account is closed, none of its creates is in flight and none of
\* its rows is left, no row stamped with it ever appears again.
Erased(u) ==
  /\ u \notin accounts
  /\ \A r \in Requests : InFlight(r) /\ call[r].op = "create" => call[r].user # u
  /\ IdsByUser(rows, u) = {}
ErasureIsFinal == [][\A u \in Users : Erased(u) => Erased(u)']_vars

\* A harvest that is gone still has its reminder, and nobody is about to
\* cancel it.
LeftOver(id) ==
  /\ home[id] # Null /\ rows[id] = Null /\ reminder[id] = "set"
  /\ \A r \in Requests : pc[r] = "cleanup" => call[r].id # id

\* As long as no call fails, requests on single records leave a reminder over
\* in one way only: notification-service was told that the record exists,
\* and stores the reminder after the cleanup.  That takes the row to go
\* first: with the cleanup first, a check could pass between the two.  (A
\* cascade has it the other way round, and an erasure cancels nothing.)
LeftOnlyIfAsked ==
  [][Faults \cap {"db", "reminder", "crash"} = {} =>
       \A id \in HarvestIds : ~LeftOver(id) /\ LeftOver(id)' =>
         \/ reminder[id] = "asked"
         \/ \E r \in Requests : call[r].op \in {"cascade", "erase"} /\ pc'[r] # pc[r]]_vars

\* A Delete whose reminder cleanup is left to do has had its effect.
phaseBar ==
  [r \in Requests |-> CASE pc[r] = "idle"    -> "idle"
                        [] pc[r] = "cleanup" -> "done"
                        [] OTHER             -> "open"]

\* Every request behaves as if it had its whole effect at one instant.
Abstract == INSTANCE HarvestRecords WITH phase <- phaseBar
RecordsSpec == Abstract!Spec

\* Every request is answered (or lost in a crash), the cascade's loop over
\* reminders included.
EveryRequestAnswered == \A r \in Requests : InFlight(r) ~> ~InFlight(r)
=============================================================================
