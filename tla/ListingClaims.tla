---------------------------- MODULE ListingClaims ----------------------------
(***************************************************************************)
(* What a comment says of the report, taken at its word, beside            *)
(* HarvestListing.                                                         *)
(***************************************************************************)
EXTENDS MCHarvestListing

VARIABLE stayed  \* history: records a report was about ever since it arrived

ClaimInit == Init /\ stayed = [r \in Readers |-> {}]

ClaimNext ==
  /\ Next
  /\ stayed' = [r \in Readers |->
       IF query'[r] = Null THEN {}
       ELSE (IF query[r] = Null THEN HarvestIds ELSE stayed[r]) \cap Wanted(query[r])']

ClaimSpec == ClaimInit /\ [][ClaimNext]_<<vars, stayed>>

\* application/harvest/service.go:162: "GetInternalReportData returns all
\* harvest records in the inclusive date range".  As said: a record that is
\* there and in the range from the request to its answer is in the answer.
ReportReturnsAll ==
  [][\A r \in Readers :
       pc[r] = "page" /\ query[r].op = "report" /\ reply'[r].code = "ok" =>
         stayed[r] \subseteq ToSet(reply'[r].items)]_<<vars, stayed>>
=============================================================================
