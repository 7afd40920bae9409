---------------------------- MODULE HarvestClaims ----------------------------
(***************************************************************************)
(* What the repository's documents and comments say of the service, taken  *)
(* at their word.  TLC refutes each of these on a run of HarvestService;   *)
(* the README tells the counterexamples.                                   *)
(***************************************************************************)
EXTENDS MCHarvestService

\* domain/harvest/repository.go:36: DeleteByHive "returns the deleted IDs so
\* dependent reminders can be cancelled in the same cascade".  As said: a
\* cascade that answers has cancelled the reminders of all it deleted.
CascadeCancelsAllItDeletes ==
  \A r \in Requests : call[r].op = "cascade" => reply[r].ids \subseteq cancelled[r]

\* domain/harvest/harvest.go:26: "UserID is denormalized for durable account
\* deletion".  As said: once the erasure of a closed account is confirmed,
\* no row of that account is there.
AccountDeletionIsDurable ==
  \A r \in Requests :
    call[r].op = "erase" /\ reply[r].code = "no_content" =>
      IdsByUser(rows, call[r].user) = {}

\* Only closed accounts are erased.
ClosedBeforeErased ==
  \A r \in Requests : call[r].op = "erase" => call[r].user \notin accounts
=============================================================================
