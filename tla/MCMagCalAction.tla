---------------------------- MODULE MCMagCalAction ----------------------------
(* Two threads, as main starts; a goal for each of them, which is what it     *)
(* takes to hold both; two samples, so that a calibration can be half         *)
(* complete.  The theorems are for any number of goals and threads.           *)
EXTENDS MagCalAction
=============================================================================
