------------------------------ MODULE MCSyncPush ------------------------------
(* Instances of SyncPush for TLC. *)
EXTENDS SyncPush, TLC

CONSTANTS r1, r2

MCReqs == {r1, r2}
ReqSymmetry == Permutations(MCReqs)

\* Two reports, the second op a position ping.
MCReports == [op \in 1 .. 2 |-> "FIELD_REPORT"]
MCReportAndPing == [op \in 1 .. 2 |-> IF op = 1 THEN "FIELD_REPORT" ELSE "GPS_PING"]

\* DEFAULT_SYNC_POLICY with the batch limits scaled to two ops.
MCPolicy ==
  [class \in Classes |->
     CASE class = "GOOD"      -> [maxOps |-> 2, allowPhotos |-> TRUE,
                                  allowedTypes |-> {"FIELD_REPORT", "GPS_PING"}]
       [] class = "WEAK"      -> [maxOps |-> 2, allowPhotos |-> FALSE,
                                  allowedTypes |-> {"FIELD_REPORT", "GPS_PING"}]
       [] class = "VERY_WEAK" -> [maxOps |-> 1, allowPhotos |-> FALSE,
                                  allowedTypes |-> {"GPS_PING", "CRITICAL_FIELD_REPORT"}]
       [] class = "OFFLINE"   -> [maxOps |-> 0, allowPhotos |-> FALSE, allowedTypes |-> {}]]

\* An active sync_policies row without an entry for very weak links: the server
\* refuses what the device, by its fallback, sends there.
MCPartialPolicy == [class \in Classes \ {"VERY_WEAK"} |-> MCPolicy[class]]
===============================================================================
