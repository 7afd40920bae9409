---------------------------- MODULE ServerProcess ----------------------------
(***************************************************************************)
(* The life of one harvest-service process: configuration, connections,    *)
(* listening, the drain after SIGTERM or SIGINT, the deferred closing of   *)
(* what was opened, and its exit, with the requests it carries meanwhile.  *)
(*                                                                         *)
(*   config -> database -> redis -> auth -> serving -> draining            *)
(*                 |          |       |        |           |               *)
(*              exited <- - - - - - closing <- - - - - - - -               *)
(*                                                                         *)
(* Time is counted in ticks.  A timer that has run out stops the clock     *)
(* until what it guards has been given up, and so does whatever the code   *)
(* does at once; everything else may take any time.  What a request does   *)
(* besides holding a pool connection or not is HarvestService's matter.    *)
(*                                                                         *)
(* A connection, as net/http's Shutdown tells them apart:                  *)
(*                                                                         *)
(*   none -> new ----> working <-> waiting -> sql                          *)
(*           idle -> next -^  |                |                           *)
(*            ^---------------+ <--------------+                           *)
(*                                                                         *)
(* "new" (StateNew): the first header is being read; "idle" and "next"     *)
(* (StateIdle): kept open after an answer, and with part of a further      *)
(* header; the other three (StateActive): a handler is at work.            *)
(***************************************************************************)
EXTENDS Integers, FiniteSets

CONSTANTS
  Null,
  Requests,        \* slots for connections of clients
  MaxConns,        \* connections in the pool
  Defaults,        \* config.go's durations, in ticks
  RequestTimeout,  \* the router's middleware.Timeout
  NewGrace,        \* net/http: what Shutdown leaves a new connection, 5 s
  GracePeriod,     \* from SIGTERM to SIGKILL by the container runtime
  Environments     \* what the environment variables may be

Durations == {"database", "redis", "read", "write", "shutdown"}

\* A duration variable is {} if it is unset or time.ParseDuration refuses
\* it, else what it parses to.  Zero or negative server timeouts, which
\* net/http takes for none, are left out; a shutdown timeout may be zero.
ASSUME ProcessConstants ==
  /\ Null \notin Nat
  /\ MaxConns \in Nat \ {0}
  /\ RequestTimeout \in Nat \ {0}
  /\ NewGrace \in Nat /\ GracePeriod \in Nat
  /\ Defaults \in [Durations -> Nat] /\ Defaults.read > 0 /\ Defaults.write > 0
  /\ \A e \in Environments :
       /\ \A d \in Durations : \A n \in e.durations[d] : n \in Nat
       /\ 0 \notin e.durations["read"] \cup e.durations["write"]

VARIABLES
  env,       \* the environment the process runs in
  stage,     \* how far run() has come
  timer,     \* ticks left of the call run() is in, Null if it has no limit
  listener,  \* "none", "open", "failed" (errCh holds an error) or "shut"
  exit,      \* what run() will return, then the exit code; Null before
  signalled, \* a SIGTERM or SIGINT has come
  since,     \* ticks since then
  up,        \* external: the services that answer
  at,        \* where each connection is
  spent      \* ticks it has been read for, or its request worked on

process == <<stage, timer, listener, exit>>
requests == <<at, spent>>
vars == <<env, process, signalled, since, up, requests>>
-----------------------------------------------------------------------------
(* Configuration.                                                          *)

Required == {"DATABASE_URL", "REDIS_ADDR", "AUTH_JWKS_URL",
             "INTERNAL_SERVICE_TOKEN", "HIVE_SERVICE_URL"}

\* Mutant: an unencrypted address is refused.
HTTPSchemesSecure == {"https"}

HTTPSchemes == {"http", "https"}

\* validateHTTPURL, of the scheme in front of a host.
ValidHTTPURL(scheme) == scheme \in HTTPSchemes

getDuration(value, fallback) ==
  IF value = {} THEN fallback ELSE CHOOSE n \in value : TRUE

Configured(e) == Required \subseteq e.set /\ ValidHTTPURL(e.notification)

cfg == [d \in Durations |-> getDuration(env.durations[d], Defaults[d])]
-----------------------------------------------------------------------------
Alive == stage # "exited"
Booting == stage \in {"database", "redis", "auth"}
Read == {"new", "next"}
Handled == {"working", "waiting", "sql"}
Running == Read \cup Handled
Active == {r \in Requests : at[r] \in Running}
Holding == {r \in Requests : at[r] = "sql"}
PoolOpen == stage \in {"redis", "auth", "serving", "draining"}

\* A handler may still read a body or write an answer when the request's
\* context is done: the deadlines of the connection end that.
LongerOf(s, t) == IF s >= t THEN s ELSE t
HandlerTime == LongerOf(RequestTimeout, LongerOf(cfg.read, cfg.write))

\* How long each place may last.
Limit(place) ==
  CASE place \in Read -> cfg.read
    [] place = "working" -> HandlerTime
    [] OTHER -> RequestTimeout

Init ==
  /\ env \in Environments
  /\ stage = "config" /\ timer = Null /\ listener = "none" /\ exit = Null
  /\ signalled = FALSE /\ since = 0
  /\ up \in SUBSET {"database", "redis", "auth"}
  /\ at = [r \in Requests |-> "none"] /\ spent = [r \in Requests |-> 0]

\* The process ends and every request a client still had is cut.
Exit(code) ==
  /\ stage' = "exited" /\ exit' = code /\ timer' = Null
  /\ listener' = IF listener = "open" THEN "shut" ELSE listener
  /\ at' = [r \in Requests |-> CASE at[r] \in Running -> "cut"
                                [] at[r] = "idle" -> "none"
                                [] OTHER -> at[r]]

\* run() returns: the deferred calls close the pool and Redis.
Return(code) ==
  /\ stage' = "closing" /\ exit' = code /\ timer' = Null
  /\ UNCHANGED <<listener, at>>
-----------------------------------------------------------------------------
(* run(), up to serving.                                                   *)

LoadConfig ==
  /\ stage = "config"
  /\ IF Configured(env)
     THEN /\ stage' = "database" /\ timer' = cfg.database
          /\ UNCHANGED <<listener, exit, at>>
     ELSE Exit(1)
  /\ UNCHANGED <<env, signalled, since, up, spent>>

After == [database |-> "redis", redis |-> "auth", auth |-> "serving"]

\* The service answers, in no time if it answers at all.
Connected ==
  /\ Booting /\ stage \in up /\ timer # 0
  /\ stage' = After[stage]
  /\ timer' = IF stage = "database" THEN cfg.redis ELSE Null
  /\ UNCHANGED <<env, listener, exit, signalled, since, up, requests>>

\* Before there is a pool, an error is returned as it is.
BootFails ==
  /\ IF stage = "database" THEN Exit(1) ELSE Return(1)
  /\ UNCHANGED <<env, signalled, since, up, spent>>

Refused == Booting /\ stage \notin up /\ BootFails
TimesOut == Booting /\ timer = 0 /\ BootFails

\* Mutant: the keys of auth-service are fetched under context.Background().
AbortedUnlessAuth == Booting /\ stage # "auth" /\ signalled /\ BootFails

\* Each call of the boot runs under the context a signal cancels.
Aborted == Booting /\ signalled /\ BootFails

\* The goroutine of srv.Run.
Listen ==
  /\ listener = "none" /\ stage = "serving"
  /\ listener' \in {"open", "failed"}
  /\ UNCHANGED <<env, stage, timer, exit, signalled, since, up, requests>>

AcceptFails ==
  /\ listener = "open" /\ stage = "serving"
  /\ listener' = "failed"
  /\ UNCHANGED <<env, stage, timer, exit, signalled, since, up, requests>>
-----------------------------------------------------------------------------
(* run(), to its end.                                                      *)

\* The select takes either branch when both are ready.  (Run returns nil
\* only once Shutdown has been called, by when nobody reads errCh.)
RunReturns ==
  /\ stage = "serving" /\ listener = "failed"
  /\ Return(1)
  /\ UNCHANGED <<env, signalled, since, up, spent>>

\* net/http's closeIdleConns: what it closes, and what it waits for.  A new
\* connection counts as idle once its header has kept it waiting too long.
Unused ==
  {r \in Requests : \/ at[r] \in {"idle", "next"}
                    \/ at[r] = "new" /\ spent[r] > NewGrace}
Busy == Active \ Unused

\* What is left once it has gone through the connections: who had begun to
\* send a header goes unread.
Swept ==
  [r \in Requests |-> CASE r \notin Unused -> at[r]
                       [] at[r] = "idle" -> "none"
                       [] OTHER -> "unread"]

\* Mutant: the drain runs under the context the signal has cancelled.
ShutdownCancelled ==
  /\ stage = "serving" /\ signalled
  /\ stage' = "draining" /\ timer' = 0
  /\ listener' = IF listener = "failed" THEN "failed" ELSE "shut"
  /\ at' = Swept
  /\ UNCHANGED <<env, exit, signalled, since, up, spent>>

\* Shutdown closes the listener, or keeps Run from opening it, and goes
\* through the connections a first time.
Shutdown ==
  /\ stage = "serving" /\ signalled
  /\ stage' = "draining" /\ timer' = cfg.shutdown
  /\ listener' = IF listener = "failed" THEN "failed" ELSE "shut"
  /\ at' = Swept
  /\ UNCHANGED <<env, exit, signalled, since, up, spent>>

\* It polls as long as there is somebody to wait for.
Sweep ==
  /\ stage = "draining" /\ Unused # {} /\ Busy # {}
  /\ at' = Swept
  /\ UNCHANGED <<env, process, signalled, since, up, spent>>

\* Mutant: run() returns when srv.Run does, once the listener is closed.
DrainedWhenShut ==
  /\ stage = "draining" /\ listener = "shut"
  /\ Return(0)
  /\ UNCHANGED <<env, signalled, since, up, spent>>

Drained ==
  /\ stage = "draining" /\ Busy = {}
  /\ stage' = "closing" /\ exit' = 0 /\ timer' = Null
  /\ at' = Swept
  /\ UNCHANGED <<env, listener, signalled, since, up, spent>>

\* Mutant: the error of Shutdown is logged and run() returns nil.
DrainGivesUpQuietly ==
  /\ stage = "draining" /\ timer = 0
  /\ Return(0)
  /\ UNCHANGED <<env, signalled, since, up, spent>>

DrainGivesUp ==
  /\ stage = "draining" /\ timer = 0
  /\ Return(1)
  /\ UNCHANGED <<env, signalled, since, up, spent>>

\* pgxpool's Close waits until every connection has been given back.
PoolClosed ==
  /\ stage = "closing" /\ Holding = {}
  /\ Exit(exit)
  /\ UNCHANGED <<env, signalled, since, up, spent>>
-----------------------------------------------------------------------------
(* Requests.                                                               *)

Moves(r, place, ticks) ==
  /\ Alive
  /\ at' = [at EXCEPT ![r] = place]
  /\ spent' = [spent EXCEPT ![r] = ticks]
  /\ UNCHANGED <<env, process, signalled, since, up>>

\* A client's connection is accepted; its first request is still to be read.
Accept(r) ==
  /\ at[r] \notin Running \cup {"idle"} /\ listener = "open"
  /\ Moves(r, "new", 0)

\* A kept connection brings the first bytes of another request, or ends.
NextRequest(r) == at[r] = "idle" /\ Moves(r, "next", 0)
HangUp(r) == at[r] = "idle" /\ Moves(r, "none", 0)

\* The header is there: the handler starts, and with it the deadlines of
\* the answer (WriteTimeout) and of the request's context.
ReadEnds(r) == at[r] \in Read /\ Moves(r, "working", 0)
ReadExpires(r) == at[r] \in Read /\ spent[r] >= Limit(at[r]) /\ Moves(r, "none", 0)

\* A statement takes one connection of the pool, under the request's
\* context, and gives it back; a handler never asks for a second one
\* meanwhile.
Acquire(r) ==
  /\ at[r] = "working" /\ PoolOpen /\ spent[r] < RequestTimeout
  /\ Moves(r, "waiting", spent[r])
Acquired(r) ==
  /\ at[r] = "waiting" /\ PoolOpen /\ Cardinality(Holding) < MaxConns
  /\ Moves(r, "sql", spent[r])

\* Mutant: every statement has the whole timeout for itself.
StatementEndsAfresh(r) == at[r] = "sql" /\ Moves(r, "working", 0)

StatementEnds(r) == at[r] = "sql" /\ Moves(r, "working", spent[r])

\* Out of time, the call the handler is in returns an error.
CallExpires(r) ==
  /\ at[r] \in {"waiting", "sql"} /\ spent[r] >= Limit(at[r])
  /\ Moves(r, "working", spent[r])

\* A pool that is closing turns away who waits and who comes.
TurnedAway(r) ==
  /\ at[r] \in {"working", "waiting"} /\ stage = "closing"
  /\ Moves(r, "refused", 0)

\* The handler has written its answer, whether or not it still gets through;
\* once Shutdown has closed the listener no connection is kept.
Finish(r) ==
  /\ at[r] = "working"
  /\ \/ Moves(r, "none", 0)
     \/ listener # "shut" /\ stage # "draining" /\ Moves(r, "idle", 0)

\* Past the deadlines of its connection too, the handler is done.
Expire(r) ==
  /\ at[r] = "working" /\ spent[r] >= Limit(at[r])
  /\ Moves(r, "none", 0)

Work(r) ==
  \/ NextRequest(r) \/ HangUp(r) \/ ReadEnds(r) \/ ReadExpires(r)
  \/ Acquire(r) \/ Acquired(r) \/ StatementEnds(r) \/ CallExpires(r)
  \/ TurnedAway(r) \/ Finish(r) \/ Expire(r)
-----------------------------------------------------------------------------
(* Outside.                                                                *)

\* Until run() has asked to be notified, a signal kills the process.
Signal ==
  /\ Alive /\ ~signalled
  /\ signalled' = TRUE
  /\ IF stage = "config" THEN Exit(143) ELSE UNCHANGED <<process, at>>
  /\ UNCHANGED <<env, since, up, spent>>

Kill ==
  /\ Alive /\ signalled /\ since >= GracePeriod
  /\ Exit(137)
  /\ UNCHANGED <<env, signalled, since, up, spent>>

\* The container runtime starts it again unless it was told to stop.
Restart ==
  /\ stage = "exited" /\ ~signalled
  /\ stage' = "config" /\ exit' = Null /\ listener' = "none"
  /\ at' = [r \in Requests |-> "none"]
  /\ UNCHANGED <<env, timer, signalled, since, up, spent>>

\* Services come and go; once the process serves, a service that is away
\* is a failed call of a request, and no matter of this module.
ServicesChange ==
  /\ Booting
  /\ up' \in SUBSET {"database", "redis", "auth"}
  /\ UNCHANGED <<env, process, signalled, since, requests>>
-----------------------------------------------------------------------------
(* Time.                                                                   *)

\* Mutant: nothing is ever due.
NeverDue == FALSE

\* Something is due now.
Due ==
  \/ timer = 0
  \/ \E r \in Active : spent[r] >= Limit(at[r])
  \/ Booting /\ (signalled \/ stage \in up)
  \/ stage = "serving" /\ (signalled \/ listener = "failed")
  \/ stage = "draining" /\ (Unused # {} \/ Busy = {})
  \/ stage = "closing" /\ Holding = {}

Tick ==
  /\ Alive /\ ~Due
  /\ timer' = IF timer = Null THEN Null ELSE timer - 1
  /\ spent' = [r \in Requests |-> IF at[r] \in Running THEN spent[r] + 1 ELSE spent[r]]
  /\ since' = IF signalled THEN since + 1 ELSE since
  /\ UNCHANGED <<env, stage, listener, exit, signalled, up, at>>
-----------------------------------------------------------------------------
Boot == LoadConfig \/ Connected \/ TimesOut \/ Aborted
End == RunReturns \/ Shutdown \/ Sweep \/ Drained \/ DrainGivesUp \/ PoolClosed

Next ==
  \/ Boot \/ Refused \/ Listen \/ AcceptFails \/ End
  \/ \E r \in Requests : Accept(r) \/ Work(r)
  \/ Signal \/ Kill \/ Restart \/ ServicesChange
  \/ Tick

Spec == Init /\ [][Next]_vars

\* run() goes on when it can, the server's goroutine gets to listen, a
\* request out of time ends, the runtime restarts, and time passes.
\* Services, clients, signals and the work of a request are free.
FairSpec ==
  /\ Spec
  /\ WF_vars(Boot) /\ WF_vars(Listen) /\ WF_vars(End)
  /\ WF_vars(Restart) /\ WF_vars(Tick)
  /\ \A r \in Requests : WF_vars(ReadExpires(r) \/ CallExpires(r) \/ Expire(r))
-----------------------------------------------------------------------------
(* Properties.                                                             *)

Stages == {"config", "database", "redis", "auth", "serving", "draining",
           "closing", "exited"}

\* Every variable holds a value of its kind; no timer runs below zero, and
\* only a run() that is returning has a code to return.
TypeOK ==
  /\ env \in Environments
  /\ stage \in Stages
  /\ timer \in Nat \cup {Null}
  /\ listener \in {"none", "open", "failed", "shut"}
  /\ exit \in {Null, 0, 1, 137, 143}
  /\ exit # Null <=> stage \in {"closing", "exited"}
  /\ signalled \in BOOLEAN /\ since \in Nat
  /\ up \in SUBSET {"database", "redis", "auth"}
  /\ at \in [Requests -> Running \cup {"none", "idle", "unread", "cut", "refused"}]
  /\ spent \in [Requests -> Nat]

\* A process that reports a clean end (code 0) was asked to end, and has
\* neither cut nor turned away a request that had got to a handler, nor one
\* still being read that Shutdown waited for.  (Who was closed unread, see
\* CutOnlyAfterGrace.)
ExitCodeIsTrue ==
  stage = "exited" /\ exit = 0 =>
    signalled /\ \A r \in Requests : at[r] \notin {"cut", "refused"}

\* After a signal the process is gone once the last request accepted before
\* it has been read and has used up its time, and not only after the
\* shutdown timeout: closing the pool waits for statements longer than that.
ExitsInTime == signalled /\ Alive => since <= cfg.read + HandlerTime

\* r loses its connection in the middle of a request or is denied the pool.
Dropped(r) == at[r] \in Running /\ at'[r] \in {"unread", "cut", "refused"}

\* The listener died by itself, or the runtime was less patient than the
\* configured shutdown.
Forced == listener = "failed" \/ (exit' = 137 /\ GracePeriod < cfg.shutdown)

\* Nobody is dropped before the whole shutdown timeout is over, but two kinds
\* of connections whose header is not read yet, which Shutdown takes for
\* idle: a kept one, and a new one that has been silent for NewGrace.
CutOnlyAfterGrace ==
  [][\A r \in Requests : Dropped(r) =>
       \/ Forced
       \/ since >= cfg.shutdown
       \/ at[r] = "next"
       \/ at[r] = "new" /\ spent[r] > NewGrace]_vars

\* With a shutdown timeout of at least the read and the write timeout, as
\* by default, a request dropped by its handler's process is past its write
\* timeout: nobody is cut who could still have had an answer.  A client's
\* first request is not lost either, if the read timeout ends it before
\* Shutdown would, as by default; a further one on a kept connection may be.
NobodyIsCutShort ==
  [][cfg.shutdown >= cfg.read + cfg.write =>
       \A r \in Requests : Dropped(r) =>
         \/ Forced
         \/ at[r] \in Handled /\ spent[r] >= cfg.write
         \/ at'[r] = "unread" /\ (at[r] = "new" => cfg.read > NewGrace)]_vars

\* A signal ends the process wherever it is in its life, also while it
\* waits without a limit for the keys of auth-service.
SignalEnds == signalled ~> ~Alive

\* With what .env.example calls required, and time to connect in, the
\* process comes to serve once the services it depends on stay up, however
\* often it failed before; nobody has to see to their order.
Complete(e) ==
  /\ {"DATABASE_URL", "REDIS_ADDR", "AUTH_JWKS_URL", "INTERNAL_SERVICE_TOKEN",
      "HIVE_SERVICE_URL"} \subseteq e.set
  /\ e.notification \in {"http", "https"}
  /\ e.durations.database # {0} /\ e.durations.redis # {0}
ComesUp ==
  Complete(env) /\ <>[](up = {"database", "redis", "auth"})
    => <>(signalled \/ stage = "serving")
=============================================================================
