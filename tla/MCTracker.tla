----------------------------- MODULE MCTracker -----------------------------
(* Instances of Tracker for TLC: see MCTracker.cfg and MCTrackerReport.cfg. *)
EXTENDS Tracker
=============================================================================
