------------------------------ MODULE VenueFeed ------------------------------
(***************************************************************************)
(* The venue implements ReportFeed: publish issues a report when it takes  *)
(* an ExecID while the venue is not silenced, and posts it with each       *)
(* SendToTarget.  A report is issued from then on, also while the          *)
(* goroutine that publishes it has not reached either store.               *)
(***************************************************************************)
EXTENDS Venue

issuedReports == ReportsIn(sent[KindOrderEntry]) \cup {rep[t] : t \in InFanout}

Feed == INSTANCE ReportFeed WITH Feeds <- Session, issued <- issuedReports, log <- sent

\* Every step of the venue is, to the readers of its two sessions, the issue
\* of one new report, the posting of an issued one on a session that has not
\* had it, or nothing: no restart of numbering, no second copy, no difference
\* between the two copies.
ImplementsReportFeed == Feed!Spec
=============================================================================
