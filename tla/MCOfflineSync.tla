---------------------------- MODULE MCOfflineSync ----------------------------
(* Instances of OfflineSync for TLC. *)
EXTENDS OfflineSync, TLC

CONSTANTS r1, r2

MCReqs == {r1, r2}
ReqSymmetry == Permutations(MCReqs)

MCReports == [op \in 1 .. NumOps |-> "FIELD_REPORT"]
MCReportThenPing == [op \in 1 .. NumOps |-> IF op = 1 THEN "FIELD_REPORT" ELSE "GPS_PING"]

\* DEFAULT_SYNC_POLICY and SyncPolicy.defaults() with the batch limits scaled
\* from 5 .. 100 ops to 1 .. 2, so that a batch can be full.
MCPolicy ==
  [class \in Classes |->
     CASE class = "GOOD"      -> [maxOps |-> 2, allowPhotos |-> TRUE,
                                  allowedTypes |-> {"FIELD_REPORT", "GPS_PING"}]
       [] class = "WEAK"      -> [maxOps |-> 2, allowPhotos |-> FALSE,
                                  allowedTypes |-> {"FIELD_REPORT", "GPS_PING"}]
       [] class = "VERY_WEAK" -> [maxOps |-> 1, allowPhotos |-> FALSE,
                                  allowedTypes |-> {"GPS_PING", "CRITICAL_FIELD_REPORT"}]
       [] class = "OFFLINE"   -> [maxOps |-> 0, allowPhotos |-> FALSE, allowedTypes |-> {}]]

\* An active sync_policies row that is stricter than the device's fallback: it
\* defers, on a weak link, the pings the fallback lets through.
MCStrictPolicy == [MCPolicy EXCEPT !["WEAK"].allowedTypes = {"FIELD_REPORT"}]
===============================================================================
