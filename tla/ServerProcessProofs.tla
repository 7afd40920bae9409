------------------------- MODULE ServerProcessProofs -------------------------
(***************************************************************************)
(* The safety of a process's life, for any number of requests, any size of *)
(* the pool, any environments and any timeouts, a missing one included.    *)
(***************************************************************************)
EXTENDS ServerProcess, TLAPS

\* The timeouts of any environment are numbers of ticks.
LEMMA Timeouts ==
  ASSUME env \in Environments
  PROVE  /\ cfg.database \in Nat /\ cfg.redis \in Nat /\ cfg.shutdown \in Nat
         /\ cfg.read \in Nat \ {0} /\ cfg.write \in Nat \ {0}
<1>1. ASSUME NEW d \in Durations
      PROVE  /\ cfg[d] = getDuration(env.durations[d], Defaults[d])
             /\ cfg[d] \in Nat
             /\ d \in {"read", "write"} => cfg[d] # 0
  <2>1. cfg[d] = getDuration(env.durations[d], Defaults[d])
    BY <1>1 DEF cfg
  <2>2. CASE env.durations[d] = {}
    BY <1>1, <2>1, <2>2, ProcessConstants DEF getDuration, Durations
  <2>3. CASE env.durations[d] # {}
    <3>1. cfg[d] \in env.durations[d]
      BY <2>1, <2>3 DEF getDuration
    <3> QED BY <1>1, <2>1, <3>1, ProcessConstants DEF Durations
  <2> QED BY <2>2, <2>3
<1> QED BY <1>1 DEF Durations

\* A handler has at least each of the times that may end it.
LEMMA TimeToHandle ==
  ASSUME env \in Environments
  PROVE  /\ HandlerTime \in Nat
         /\ HandlerTime >= RequestTimeout /\ HandlerTime >= cfg.read
BY Timeouts, ProcessConstants DEF HandlerTime, LongerOf

\* A process keeps the environment it was started in.
LEMMA SameTimeouts ==
  ASSUME [Next]_vars
  PROVE  env' = env /\ cfg' = cfg /\ HandlerTime' = HandlerTime
<1>1. env' = env
  BY DEF Next, Boot, End, Work, LoadConfig, Connected, BootFails, Refused, TimesOut,
     Aborted, Listen, AcceptFails, RunReturns, Shutdown, Sweep, Drained, DrainGivesUp,
     PoolClosed, Moves, Accept, NextRequest, HangUp, ReadEnds, ReadExpires, Acquire,
     Acquired, StatementEnds, CallExpires, TurnedAway, Finish, Expire, Signal, Kill,
     Restart, ServicesChange, Tick, vars
<1>2. cfg' = cfg
  BY <1>1 DEF cfg
<1> QED BY <1>1, <1>2 DEF HandlerTime, LongerOf

\* How long each place may last, place by place.
LEMMA Limits ==
  /\ Limit("new") = cfg.read /\ Limit("next") = cfg.read
  /\ Limit("working") = HandlerTime
  /\ Limit("waiting") = RequestTimeout /\ Limit("sql") = RequestTimeout
BY DEF Limit, Read

\* What Shutdown leaves of a connection it goes over: nothing but requests
\* it has to wait for.
LEMMA SweptPlaces ==
  ASSUME NEW r \in Requests
  PROVE  /\ Swept[r] \in {at[r], "none", "unread"}
         /\ Swept[r] \notin {"idle", "next"}
         /\ Swept[r] \in Running => Swept[r] = at[r] /\ r \in Busy
         /\ Swept[r] = "unread" =>
              \/ at[r] \in {"unread", "next"}
              \/ at[r] = "new" /\ spent[r] > NewGrace
<1>1. Swept[r] = CASE r \notin Unused -> at[r]
                   [] at[r] = "idle" -> "none"
                   [] OTHER -> "unread"
  BY DEF Swept
<1>2. CASE r \notin Unused
  BY <1>1, <1>2 DEF Unused, Busy, Active, Running, Read, Handled
<1>3. CASE r \in Unused /\ at[r] = "idle"
  BY <1>1, <1>3 DEF Running, Read, Handled
<1>4. CASE r \in Unused /\ at[r] # "idle"
  <2>1. Swept[r] = "unread"
    BY <1>1, <1>4
  <2> QED BY <1>4, <2>1 DEF Unused, Running, Read, Handled
<1> QED BY <1>2, <1>3, <1>4
-----------------------------------------------------------------------------
(* Steps, by what they do to the process and to the requests.              *)

\* run() gets one stage further on its way up.
Climbs ==
  /\ stage \in {"config", "database", "redis", "auth"}
  /\ stage = "config" => stage' = "database" /\ timer' = cfg.database
  /\ stage = "database" => stage' = "redis" /\ timer' = cfg.redis
  /\ stage = "redis" => stage' = "auth" /\ timer' = Null
  /\ stage = "auth" => stage' = "serving" /\ timer' = Null
  /\ UNCHANGED <<listener, exit, signalled, since, requests>>

\* run() returns an error.
Returns ==
  /\ \/ stage \in {"redis", "auth"}
     \/ stage = "serving" /\ listener = "failed"
     \/ stage = "draining" /\ timer = 0
  /\ exit' = 1 /\ stage' = "closing" /\ timer' = Null
  /\ UNCHANGED <<listener, signalled, since, requests>>

\* The process ends.
Exits ==
  /\ \/ stage \in {"config", "database"} /\ exit' = 1 /\ UNCHANGED signalled
     \/ stage = "closing" /\ exit' = exit /\ UNCHANGED signalled
     \/ Alive /\ exit' = 137 /\ signalled /\ UNCHANGED signalled /\ since >= GracePeriod
     \/ stage = "config" /\ ~signalled /\ signalled' = TRUE /\ exit' = 143
  /\ Exit(exit')
  /\ UNCHANGED <<since, spent>>

\* The listener opens or fails.
Listens ==
  /\ stage = "serving" /\ listener \in {"none", "open"} /\ listener' \in {"open", "failed"}
  /\ UNCHANGED <<stage, timer, exit, signalled, since, requests>>

\* What a step of one request may do with it.
RequestMoves(r, place, ticks) ==
  /\ Alive
  /\ \/ /\ at[r] \notin Running \cup {"idle"} /\ listener = "open"
        /\ place = "new" /\ ticks = 0
     \/ at[r] = "idle" /\ place \in {"next", "none"} /\ ticks = 0
     \/ at[r] \in Read /\ place = "working" /\ ticks = 0
     \/ at[r] \in Running /\ place = "none" /\ ticks = 0
     \/ /\ at[r] = "working" /\ place = "idle" /\ ticks = 0
        /\ listener # "shut" /\ stage # "draining"
     \/ /\ at[r] = "working" /\ place = "waiting" /\ ticks = spent[r]
        /\ PoolOpen /\ spent[r] < RequestTimeout
     \/ at[r] = "waiting" /\ place = "sql" /\ ticks = spent[r] /\ PoolOpen
     \/ at[r] \in {"waiting", "sql"} /\ place = "working" /\ ticks = spent[r]
     \/ /\ at[r] \in {"working", "waiting"} /\ place = "refused" /\ ticks = 0
        /\ stage = "closing"
  /\ at' = [at EXCEPT ![r] = place] /\ spent' = [spent EXCEPT ![r] = ticks]
  /\ UNCHANGED <<process, signalled, since>>

\* A signal that a running process waits for.
Signals ==
  /\ Alive /\ stage # "config" /\ ~signalled /\ signalled' = TRUE
  /\ UNCHANGED <<process, since, requests>>

\* Nothing that matters here.
Stutters == UNCHANGED <<process, signalled, since, requests>>

\* Every step is one of these, or the drain begins, the process is started
\* again, or time passes.
LEMMA Steps ==
  ASSUME [Next]_vars, TypeOK
  PROVE  \/ Climbs \/ Returns \/ Exits \/ Listens \/ Signals \/ Stutters
         \/ Shutdown \/ Sweep \/ Drained \/ Restart \/ Tick
         \/ \E r \in Requests : \E place, ticks : RequestMoves(r, place, ticks)
<1> USE DEF process, requests
<1>1. CASE LoadConfig
  BY <1>1 DEF LoadConfig, Climbs, Exits, Exit
<1>2. CASE Connected
  BY <1>2 DEF Connected, Booting, After, Climbs
<1>3. CASE Refused \/ TimesOut \/ Aborted
  <2>1. Booting /\ BootFails
    BY <1>3 DEF Refused, TimesOut, Aborted
  <2> QED BY <2>1 DEF Booting, BootFails, Return, Exit, Returns, Exits
<1>4. CASE Listen \/ AcceptFails
  BY <1>4 DEF Listen, AcceptFails, Listens
<1>5. CASE RunReturns \/ DrainGivesUp
  BY <1>5 DEF RunReturns, DrainGivesUp, Return, Returns
<1>6. CASE PoolClosed
  BY <1>6 DEF PoolClosed, Exit, Exits
<1>7. CASE \E r \in Requests : Accept(r) \/ Work(r)
  <2> PICK r \in Requests : Accept(r) \/ Work(r)
    BY <1>7
  <2>1. ASSUME NEW place, NEW ticks, RequestMoves(r, place, ticks)
        PROVE  \E s \in Requests : \E p, t : RequestMoves(s, p, t)
    BY <2>1
  <2>2. CASE Accept(r)
    <3>1. RequestMoves(r, "new", 0)
      BY <2>2 DEF Accept, Moves, RequestMoves
    <3> QED BY <2>1, <3>1
  <2>3. CASE NextRequest(r)
    <3>1. RequestMoves(r, "next", 0)
      BY <2>3 DEF NextRequest, Moves, RequestMoves
    <3> QED BY <2>1, <3>1
  <2>4. CASE ReadEnds(r)
    <3>1. RequestMoves(r, "working", 0)
      BY <2>4 DEF ReadEnds, Moves, RequestMoves
    <3> QED BY <2>1, <3>1
  <2>5. CASE HangUp(r) \/ ReadExpires(r) \/ Expire(r)
    <3>1. RequestMoves(r, "none", 0)
      BY <2>5 DEF HangUp, ReadExpires, Expire, Moves, RequestMoves, Running, Handled
    <3> QED BY <2>1, <3>1
  <2>6. CASE Finish(r)
    <3>1. RequestMoves(r, "none", 0) \/ RequestMoves(r, "idle", 0)
      BY <2>6 DEF Finish, Moves, RequestMoves, Running, Handled
    <3> QED BY <2>1, <3>1
  <2>7. CASE Acquire(r)
    <3>1. RequestMoves(r, "waiting", spent[r])
      BY <2>7 DEF Acquire, Moves, RequestMoves
    <3> QED BY <2>1, <3>1
  <2>8. CASE Acquired(r)
    <3>1. RequestMoves(r, "sql", spent[r])
      BY <2>8 DEF Acquired, Moves, RequestMoves
    <3> QED BY <2>1, <3>1
  <2>9. CASE StatementEnds(r) \/ CallExpires(r)
    <3>1. RequestMoves(r, "working", spent[r])
      BY <2>9 DEF StatementEnds, CallExpires, Moves, RequestMoves
    <3> QED BY <2>1, <3>1
  <2>10. CASE TurnedAway(r)
    <3>1. RequestMoves(r, "refused", 0)
      BY <2>10 DEF TurnedAway, Moves, RequestMoves
    <3> QED BY <2>1, <3>1
  <2> QED BY <2>2, <2>3, <2>4, <2>5, <2>6, <2>7, <2>8, <2>9, <2>10 DEF Work
<1>8. CASE Signal
  BY <1>8 DEF Signal, Alive, Exit, Exits, Signals
<1>9. CASE Kill
  BY <1>9 DEF Kill, Alive, Exit, Exits
<1>10. CASE ServicesChange \/ UNCHANGED vars
  BY <1>10 DEF ServicesChange, vars, Stutters
<1> QED BY <1>1, <1>2, <1>3, <1>4, <1>5, <1>6, <1>7, <1>8, <1>9, <1>10
        DEF Next, Boot, End
-----------------------------------------------------------------------------
(* Types.                                                                  *)

\* TypeOK holds initially.
LEMMA TypesInit == Init => TypeOK
<1> SUFFICES ASSUME Init PROVE TypeOK
  OBVIOUS
<1>1. signalled \in BOOLEAN
  BY Zenon DEF Init
<1> QED BY <1>1, ProcessConstants DEF Init, TypeOK, Stages, Running, Read, Handled

\* Every step keeps the types; the clock stops before a timer is below zero.
LEMMA TypesStep ==
  ASSUME TypeOK, [Next]_vars
  PROVE  TypeOK'
<1> USE DEF TypeOK, Stages, Running, Read, Handled, process, requests
<1>1. /\ cfg.database \in Nat /\ cfg.redis \in Nat /\ cfg.shutdown \in Nat
      /\ cfg.read \in Nat /\ RequestTimeout \in Nat /\ Null \notin Nat
  BY Timeouts, ProcessConstants
<1>2. env' \in Environments /\ up' \in SUBSET {"database", "redis", "auth"}
  <2>1. env' \in Environments
    BY SameTimeouts
  <2>2. up' \in SUBSET {"database", "redis", "auth"}
    BY DEF Next, Boot, End, Work, LoadConfig, Connected, BootFails, Refused, TimesOut,
       Aborted, Listen, AcceptFails, RunReturns, Shutdown, Sweep, Drained, DrainGivesUp,
       PoolClosed, Moves, Accept, NextRequest, HangUp, ReadEnds, ReadExpires, Acquire,
       Acquired, StatementEnds, CallExpires, TurnedAway, Finish, Expire, Signal, Kill,
       Restart, ServicesChange, Tick, vars
  <2> QED BY <2>1, <2>2
<1>3. CASE Climbs
  BY <1>1, <1>2, <1>3 DEF Climbs
<1>4. CASE Returns
  BY <1>1, <1>2, <1>4 DEF Returns
<1>5. CASE Exits
  <2>1. signalled' \in BOOLEAN
    BY <1>5, Zenon DEF Exits
  <2> QED BY <1>1, <1>2, <1>5, <2>1 DEF Exits, Exit, Alive
<1>6. CASE Listens
  BY <1>1, <1>2, <1>6 DEF Listens
<1>7. CASE Signals \/ Stutters
  <2>1. signalled' \in BOOLEAN
    BY <1>7, Zenon DEF Signals, Stutters
  <2> QED BY <1>1, <1>2, <1>7, <2>1 DEF Signals, Stutters
<1>8. CASE Shutdown \/ Sweep \/ Drained
  <2>1. at' = Swept
    BY <1>8 DEF Shutdown, Sweep, Drained
  <2>2. at' \in [Requests -> Running \cup {"none", "idle", "unread", "cut", "refused"}]
    <3>1. Swept = [r \in Requests |-> Swept[r]]
      BY DEF Swept
    <3>2. \A r \in Requests : Swept[r] \in {at[r], "none", "unread"}
      BY SweptPlaces
    <3> QED BY <2>1, <3>1, <3>2
  <2> HIDE DEF Running, Read, Handled
  <2>3. /\ stage' \in Stages /\ timer' \in Nat \cup {Null}
        /\ listener' \in {"none", "open", "failed", "shut"}
        /\ exit' \in {Null, 0, 1, 137, 143}
        /\ exit' # Null <=> stage' \in {"closing", "exited"}
        /\ since' \in Nat /\ spent' \in [Requests -> Nat]
    BY <1>1, <1>8 DEF Shutdown, Sweep, Drained
  <2>4. signalled' \in BOOLEAN
    BY <1>8, Zenon DEF Shutdown, Sweep, Drained
  <2> QED BY <1>2, <2>2, <2>3, <2>4
<1>9. CASE Restart
  BY <1>1, <1>2, <1>9 DEF Restart
<1>10. CASE Tick
  <2>1. timer # 0
    BY <1>10 DEF Tick, Due
  <2> QED BY <1>1, <1>2, <1>10, <2>1 DEF Tick
<1>11. ASSUME NEW r \in Requests, NEW place, NEW ticks, RequestMoves(r, place, ticks)
       PROVE  TypeOK'
  BY <1>1, <1>2, <1>11 DEF RequestMoves
<1> QED BY Steps, <1>3, <1>4, <1>5, <1>6, <1>7, <1>8, <1>9, <1>10, <1>11

\* Every variable keeps its type: no timer, and nobody's time, ever runs
\* below zero.
THEOREM ProcessTypes == Spec => []TypeOK
<1>1. Init => TypeOK
  BY TypesInit
<1>2. TypeOK /\ [Next]_vars => TypeOK'
  BY TypesStep
<1> QED BY <1>1, <1>2, PTL DEF Spec
-----------------------------------------------------------------------------
(* Where everything is.                                                    *)

\* What the stage of the process says of its listener and its requests, and
\* what an exit code of 0 says of them.
Placed ==
  /\ stage = "config" => ~signalled
  /\ stage \in {"config", "database", "redis", "auth"} => listener = "none"
  /\ listener = "open" => stage = "serving"
  /\ stage = "draining" => signalled /\ listener \in {"failed", "shut"}
  /\ \A r \in Requests :
       /\ at[r] \in Running \cup {"idle"} =>
            stage \in {"serving", "draining", "closing"} /\ listener # "none"
       /\ at[r] \in {"cut", "refused"} => stage \in {"closing", "exited"}
       /\ at[r] \in {"idle", "next"} => stage # "draining" /\ listener # "shut"
  /\ exit = 0 => signalled /\ \A r \in Requests : at[r] \in {"none", "unread"}

\* Placed holds initially.
LEMMA PlacedInit == Init => Placed
BY ProcessConstants DEF Init, Placed, Running, Read, Handled

\* Every step keeps it.
LEMMA PlacedStep ==
  ASSUME TypeOK, Placed, [Next]_vars
  PROVE  Placed'
<1> USE DEF TypeOK, Placed, Running, Read, Handled, process, requests
<1>1. Null # 0
  BY ProcessConstants
<1>2. CASE Climbs
  BY <1>1, <1>2 DEF Climbs
<1>3. CASE Returns
  BY <1>3 DEF Returns
<1>4. CASE Exits
  <2>1. \A r \in Requests : at'[r] \notin Running \cup {"idle"}
    BY <1>4 DEF Exits, Exit
  <2>2. exit' = 0 => exit = 0 /\ signalled' = signalled
    BY <1>4 DEF Exits
  <2>3. \A r \in Requests : at[r] \in {"none", "unread"} => at'[r] = at[r]
    BY <1>4 DEF Exits, Exit
  <2> QED BY <1>4, <2>1, <2>2, <2>3 DEF Exits, Exit, Alive
<1>5. CASE Listens
  BY <1>1, <1>5 DEF Listens
<1>6. CASE Signals \/ Stutters
  BY <1>6 DEF Signals, Stutters
<1>7. CASE Shutdown \/ Sweep \/ Drained
  <2>1. /\ at' = Swept /\ stage \in {"serving", "draining"} /\ signalled' /\ signalled
        /\ exit' = 0 => stage = "draining" /\ Busy = {}
        /\ stage' \in {"draining", "closing"}
        /\ stage = "serving" => listener' \in {"failed", "shut"}
        /\ stage = "draining" => listener' = listener
    BY <1>1, <1>7 DEF Shutdown, Sweep, Drained
  <2>2. ASSUME NEW r \in Requests
        PROVE  /\ at'[r] \notin {"idle", "next"}
               /\ at'[r] \in {"cut", "refused"} => at'[r] = at[r]
               /\ at'[r] \in Running => at'[r] = at[r] /\ r \in Busy
               /\ at'[r] \in {at[r], "none", "unread"}
    <3> HIDE DEF Running, Read, Handled
    <3> QED BY <2>1, SweptPlaces
  <2>3. exit' = 0 => \A r \in Requests : at'[r] \in {"none", "unread"}
    BY <2>1, <2>2
  <2>4. \A r \in Requests : at'[r] \in {"cut", "refused"} => stage' \in {"closing", "exited"}
    BY <2>1, <2>2
  <2>5. \A r \in Requests : at'[r] \in Running => listener' # "none"
    BY <2>1, <2>2
  <2>6. listener' # "open" /\ (stage' = "draining" => listener' \in {"failed", "shut"})
    BY <2>1
  <2> QED BY <2>1, <2>2, <2>3, <2>4, <2>5, <2>6
<1>8. CASE Restart
  BY <1>1, <1>8 DEF Restart
<1>9. CASE Tick
  BY <1>9 DEF Tick
<1>10. ASSUME NEW r \in Requests, NEW place, NEW ticks, RequestMoves(r, place, ticks)
       PROVE  Placed'
  BY <1>1, <1>10 DEF RequestMoves
<1> QED BY Steps, <1>2, <1>3, <1>4, <1>5, <1>6, <1>7, <1>8, <1>9, <1>10

\* Placed holds throughout.
LEMMA AlwaysPlaced == Spec => [](TypeOK /\ Placed)
<1>1. Init => TypeOK /\ Placed
  BY TypesInit, PlacedInit
<1>2. TypeOK /\ Placed /\ [Next]_vars => (TypeOK /\ Placed)'
  BY TypesStep, PlacedStep
<1> QED BY <1>1, <1>2, PTL DEF Spec

\* A process that ends with code 0 was asked to, and has neither cut nor
\* turned away anybody.
THEOREM ExitCodesAreTrue == Spec => []ExitCodeIsTrue
<1>1. Placed => ExitCodeIsTrue
  BY DEF Placed, ExitCodeIsTrue
<1> QED BY <1>1, AlwaysPlaced, PTL
-----------------------------------------------------------------------------
(* The clock.                                                              *)

\* The pool is not being closed for a listener that failed: connections are
\* kept then, and bring further requests.
Orderly == stage # "closing" \/ listener # "failed"

\* How the time since the signal, the timer of the drain and the time each
\* request has had go together: whoever is still there was there, or on the
\* way, at the signal, and the pool is closed under requests only when the
\* listener had failed or the drain had its whole time.
Clocks ==
  /\ ~signalled => since = 0
  /\ stage \in {"config", "database", "redis", "auth", "serving"} => since = 0
  /\ stage = "draining" => timer # Null /\ since + timer = cfg.shutdown
  /\ stage = "closing" =>
       \/ listener = "failed" \/ since >= cfg.shutdown
       \/ \A r \in Requests : at[r] \notin Running \cup {"idle"}
  /\ Alive => since <= cfg.read + HandlerTime
  /\ \A r \in Requests :
       /\ at[r] \in Read => spent[r] <= cfg.read
       /\ at[r] = "working" => spent[r] <= HandlerTime
       /\ at[r] \in {"waiting", "sql"} =>
            spent[r] <= RequestTimeout /\ since <= cfg.read + spent[r]
       /\ Orderly /\ at[r] \in Read => since <= spent[r]
       /\ Orderly /\ at[r] = "working" => since <= cfg.read + spent[r]

\* Clocks holds initially.
LEMMA ClocksInit == Init => Clocks
<1> SUFFICES ASSUME Init PROVE Clocks
  OBVIOUS
<1>1. cfg.read \in Nat /\ HandlerTime \in Nat
  BY Timeouts, TimeToHandle DEF Init
<1> QED BY <1>1 DEF Init, Clocks, Running, Read, Handled

\* Every step keeps it.  Time passes only before a signal or for a request
\* that has not used up its own.
LEMMA ClocksStep ==
  ASSUME TypeOK, Placed, Clocks, [Next]_vars
  PROVE  Clocks'
<1> USE DEF TypeOK, Clocks, Orderly, Running, Read, Handled, Alive, process, requests
<1>1. /\ cfg.read \in Nat /\ cfg.shutdown \in Nat
      /\ HandlerTime \in Nat /\ HandlerTime >= RequestTimeout
      /\ RequestTimeout \in Nat /\ Null \notin Nat /\ since \in Nat
      /\ \A r \in Requests : spent[r] \in Nat
  BY Timeouts, TimeToHandle, ProcessConstants
<1>2. cfg' = cfg /\ HandlerTime' = HandlerTime
  BY SameTimeouts
<1>3. CASE Climbs
  BY <1>1, <1>2, <1>3 DEF Climbs
<1>4. CASE Returns
  <2>1. \/ stage \in {"redis", "auth"} \/ listener' = "failed" \/ since >= cfg.shutdown
    BY <1>1, <1>4 DEF Returns
  <2>2. \/ listener' = "failed" \/ since >= cfg.shutdown
        \/ \A r \in Requests : at[r] \notin Running \cup {"idle"}
    BY <2>1 DEF Placed
  <2>3. stage # "closing"
    BY <1>4 DEF Returns
  <2> QED BY <1>1, <1>2, <1>4, <2>2, <2>3 DEF Returns
<1>5. CASE Exits
  <2>1. \A r \in Requests : at'[r] \notin Running
    BY <1>5 DEF Exits, Exit
  <2> QED BY <1>1, <1>2, <1>5, <2>1 DEF Exits, Exit, Placed
<1>6. CASE Listens
  BY <1>1, <1>2, <1>6 DEF Listens
<1>7. CASE Signals \/ Stutters
  BY <1>1, <1>2, <1>7 DEF Signals, Stutters
<1>8. CASE Shutdown \/ Sweep \/ Drained
  <2>1. /\ at' = Swept /\ stage \in {"serving", "draining"}
        /\ since' = since /\ spent' = spent /\ signalled' /\ signalled
        /\ \/ stage' = "draining" /\ timer' # Null /\ since + timer' = cfg.shutdown
           \/ stage' = "closing" /\ Busy = {}
    BY <1>1, <1>8, <1>2 DEF Shutdown, Sweep, Drained, Placed
  <2>2. \A r \in Requests : /\ at'[r] # "idle"
                            /\ at'[r] \in Running => at'[r] = at[r] /\ r \in Busy
    <3> HIDE DEF Running, Read, Handled
    <3> QED BY <2>1, SweptPlaces
  <2>3. stage' = "closing" => \A r \in Requests : at'[r] \notin Running \cup {"idle"}
    BY <2>1, <2>2
  <2> QED BY <1>1, <1>2, <2>1, <2>2, <2>3
<1>9. CASE Restart
  BY <1>1, <1>2, <1>9 DEF Restart
<1>10. CASE Tick
  <2>1. /\ \A r \in Requests : at[r] \in Running =>
             ~(spent[r] >= Limit(at[r])) /\ spent'[r] = spent[r] + 1
        /\ at' = at /\ stage' = stage /\ listener' = listener /\ signalled' = signalled
        /\ timer # Null => timer' = timer - 1 /\ timer' # Null
    BY <1>1, <1>10 DEF Tick, Due, Active
  <2>2. \A r \in Requests :
          /\ at[r] \in Read => spent[r] < cfg.read
          /\ at[r] = "working" => spent[r] < HandlerTime
          /\ at[r] \in {"waiting", "sql"} => spent[r] < RequestTimeout
    BY <1>1, <2>1, Limits
  <2>3. CASE ~signalled
    <3>1. since' = since /\ stage # "draining"
      BY <1>10, <2>3 DEF Tick, Placed
    <3> QED BY <1>1, <1>2, <2>1, <2>2, <3>1
  <2>4. CASE signalled
    <3>1. stage \in {"draining", "closing"} /\ since' = since + 1
      BY <1>10, <2>4 DEF Tick, Due, Booting, Stages, Placed
    <3>2. PICK r \in Requests :
            at[r] \in Running /\ (stage = "closing" => at[r] = "sql")
      BY <1>10, <3>1 DEF Tick, Due, Busy, Active, Holding
    <3>3. since + 1 <= cfg.read + HandlerTime
      BY <1>1, <2>2, <3>1, <3>2
    <3> QED BY <1>1, <1>2, <2>1, <2>2, <2>4, <3>1, <3>3
  <2> QED BY <2>3, <2>4
<1>11. ASSUME NEW r \in Requests, NEW place, NEW ticks, RequestMoves(r, place, ticks)
       PROVE  Clocks'
  <2>1. since' = since /\ stage' = stage /\ timer' = timer /\ listener' = listener
        /\ signalled' = signalled
    BY <1>11 DEF RequestMoves
  <2>2. /\ at'[r] = place /\ spent'[r] = ticks
        /\ \A q \in Requests \ {r} : at'[q] = at[q] /\ spent'[q] = spent[q]
    BY <1>11 DEF RequestMoves
  <2>3. /\ place \in Read => ticks <= cfg.read
        /\ place = "working" => ticks <= HandlerTime
        /\ place \in {"waiting", "sql"} =>
             ticks <= RequestTimeout /\ since <= cfg.read + ticks
    BY <1>1, <1>11 DEF RequestMoves, PoolOpen
  <2>4. Orderly /\ place \in Read => since <= ticks
    BY <1>1, <1>11 DEF RequestMoves, Placed
  <2>5. Orderly /\ place = "working" => since <= cfg.read + ticks
    BY <1>1, <1>11 DEF RequestMoves
  <2>6. stage = "closing" /\ place \in Running \cup {"idle"} => at[r] \in Running \cup {"idle"}
    BY <1>11 DEF RequestMoves, Placed
  <2> QED BY <1>1, <1>2, <2>1, <2>2, <2>3, <2>4, <2>5, <2>6
<1> QED BY Steps, <1>3, <1>4, <1>5, <1>6, <1>7, <1>8, <1>9, <1>10, <1>11

\* Types, places and clocks together are inductive.
IInv == TypeOK /\ Placed /\ Clocks

\* IInv holds throughout.
LEMMA AlwaysOnTime == Spec => []IInv
<1>1. Init => IInv
  BY TypesInit, PlacedInit, ClocksInit DEF IInv
<1>2. IInv /\ [Next]_vars => IInv'
  BY TypesStep, PlacedStep, ClocksStep DEF IInv
<1> QED BY <1>1, <1>2, PTL DEF Spec

\* A process that was asked to end has ended when the last request it had
\* accepted has used up its time to be read and to be worked on.
THEOREM EndsInTime == Spec => []ExitsInTime
<1>1. IInv => ExitsInTime
  BY DEF IInv, Clocks, ExitsInTime
<1> QED BY <1>1, AlwaysOnTime, PTL

\* Who is dropped without the listener having failed, or the runtime having
\* lost its patience too soon, was taken for idle or had the whole shutdown
\* timeout.
LEMMA DroppedLate ==
  ASSUME IInv, [Next]_vars, NEW r \in Requests, Dropped(r), ~Forced
  PROVE  \/ /\ at'[r] = "unread"
            /\ at[r] = "next" \/ (at[r] = "new" /\ spent[r] > NewGrace)
         \/ since >= cfg.shutdown /\ Orderly
<1> USE DEF IInv, TypeOK, Dropped, Forced, Running, Read, Handled, process, requests
<1>1. /\ cfg.shutdown \in Nat /\ GracePeriod \in Nat
  BY Timeouts, ProcessConstants
<1>2. stage \in {"serving", "draining", "closing"} /\ Orderly
  BY DEF Placed, Orderly
<1>3. CASE Exits
  <2>1. CASE stage = "closing"
    BY <1>2, <2>1 DEF Clocks
  <2>2. CASE stage # "closing"
    BY <1>1, <1>2, <1>3, <2>2 DEF Exits
  <2> QED BY <1>2, <2>1, <2>2
<1>4. ASSUME NEW s \in Requests, NEW place, NEW ticks, RequestMoves(s, place, ticks)
      PROVE  since >= cfg.shutdown /\ Orderly
  <2>1. stage = "closing"
    BY <1>4 DEF RequestMoves
  <2> QED BY <1>2, <2>1 DEF Clocks
<1>5. CASE Climbs \/ Returns \/ Listens \/ Signals \/ Stutters \/ Tick
  BY <1>5 DEF Climbs, Returns, Listens, Signals, Stutters, Tick
<1>6. CASE Restart
  BY <1>2, <1>6 DEF Restart
<1>7. CASE Shutdown \/ Sweep \/ Drained
  <2>1. at' = Swept
    BY <1>7 DEF Shutdown, Sweep, Drained
  <2>2. /\ at'[r] \in {at[r], "none", "unread"}
        /\ at'[r] = "unread" =>
             \/ at[r] \in {"unread", "next"}
             \/ at[r] = "new" /\ spent[r] > NewGrace
    BY <2>1, SweptPlaces
  <2> QED BY <2>2
<1> QED BY Steps, <1>3, <1>4, <1>5, <1>6, <1>7

\* Nobody is dropped before the whole shutdown timeout is over, but who is
\* taken for idle.
THEOREM CutAfterGraceOnly == Spec => CutOnlyAfterGrace
<1>1. ASSUME IInv, [Next]_vars, NEW r \in Requests, Dropped(r)
      PROVE  \/ Forced
             \/ since >= cfg.shutdown
             \/ at[r] = "next"
             \/ at[r] = "new" /\ spent[r] > NewGrace
  BY <1>1, DroppedLate
<1>2. IInv /\ [Next]_vars =>
        [\A r \in Requests : Dropped(r) =>
           \/ Forced
           \/ since >= cfg.shutdown
           \/ at[r] = "next"
           \/ at[r] = "new" /\ spent[r] > NewGrace]_vars
  BY <1>1
<1> QED BY <1>2, AlwaysOnTime, PTL DEF Spec, CutOnlyAfterGrace

\* With a shutdown timeout of at least the read and the write timeout nobody
\* is cut whose answer could still have been heard, and no first request is
\* lost unread if the read timeout is shorter than what Shutdown leaves it.
THEOREM NobodyCutShort == Spec => NobodyIsCutShort
<1>1. ASSUME IInv, [Next]_vars, cfg.shutdown >= cfg.read + cfg.write,
             NEW r \in Requests, Dropped(r), ~Forced
      PROVE  \/ at[r] \in Handled /\ spent[r] >= cfg.write
             \/ at'[r] = "unread" /\ (at[r] = "new" => cfg.read > NewGrace)
  <2>1. /\ cfg.read \in Nat /\ cfg.write \in Nat \ {0} /\ cfg.shutdown \in Nat
        /\ since \in Nat /\ spent[r] \in Nat /\ NewGrace \in Nat
    BY <1>1, Timeouts, ProcessConstants DEF IInv, TypeOK
  <2>2. CASE since >= cfg.shutdown /\ Orderly
    <3>1. \/ at[r] \in Read /\ since <= spent[r] /\ spent[r] <= cfg.read
          \/ at[r] \in Handled /\ since <= cfg.read + spent[r]
      BY <1>1, <2>2 DEF IInv, Clocks, Dropped, Running, Handled
    <3> QED BY <1>1, <2>1, <2>2, <3>1
  <2>3. CASE /\ at'[r] = "unread"
             /\ at[r] = "next" \/ (at[r] = "new" /\ spent[r] > NewGrace)
    <3>1. at[r] = "new" => spent[r] <= cfg.read
      BY <1>1 DEF IInv, Clocks, Read
    <3> QED BY <2>1, <2>3, <3>1
  <2> QED BY <1>1, <2>2, <2>3, DroppedLate
<1>2. IInv /\ [Next]_vars =>
        [cfg.shutdown >= cfg.read + cfg.write =>
           \A r \in Requests : Dropped(r) =>
             \/ Forced
             \/ at[r] \in Handled /\ spent[r] >= cfg.write
             \/ at'[r] = "unread" /\ (at[r] = "new" => cfg.read > NewGrace)]_vars
  BY <1>1
<1> QED BY <1>2, AlwaysOnTime, PTL DEF Spec, NobodyIsCutShort
=============================================================================
