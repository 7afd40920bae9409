--------------------------- MODULE MCServerProcess ---------------------------
(***************************************************************************)
(* Values for the constants of ServerProcess.  One tick stands for 5 s.    *)
(***************************************************************************)
EXTENDS ServerProcess

CONSTANTS r1, r2

ConfigDefaults == [database |-> 1, redis |-> 1, read |-> 1, write |-> 2, shutdown |-> 3]
RouterTimeout == 6

Unset == [d \in Durations |-> {}]
Environment(set, notification, durations) ==
  [set |-> set, notification |-> notification, durations |-> durations]

\* The defaults; time to read longer than Shutdown leaves a new connection,
\* and a longer shutdown timeout; none; no time to connect; a variable that
\* is missing; and an address that is none.
SixEnvironments ==
  { Environment(Required, "http", Unset),
    Environment(Required, "https", [Unset EXCEPT !.shutdown = {5}, !.read = {3}]),
    Environment(Required, "http", [Unset EXCEPT !.shutdown = {0}]),
    Environment(Required, "http", [Unset EXCEPT !.database = {0}]),
    Environment(Required \ {"DATABASE_URL"}, "http", Unset),
    Environment(Required, "other", Unset) }
=============================================================================
