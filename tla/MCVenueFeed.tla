----------------------------- MODULE MCVenueFeed -----------------------------
(* MCVenue's constant values, for the refinement of ReportFeed. *)
EXTENDS MCVenue, VenueFeed
=============================================================================
